---- MODULE Spec2Model ----
(***************************************************************************)
(* Model of the document state engine of gpx.studio (db.ts): the Dexie     *)
(* tables, the live-query stores that mirror them in memory, the patch log *)
(* with its cursor, and undo/redo.                                         *)
(*                                                                         *)
(* A database write is asynchronous: a handler queues its writes and       *)
(* returns; the database executes them later, one transaction at a time,   *)
(* and the live queries notify the in-memory stores after that.            *)
(***************************************************************************)
EXTENDS Integers, Sequences, FiniteSets, TLC

MAX_PATCHES == 100

\* Bounds of the model
MaxIndex == 100      \* SpecLong, SpecRun: a commit is issued only while patchIndex + 1 <= MaxIndex
MaxRichIndex == 2    \* SpecSettled: a commit is issued only while patchIndex + 1 <= MaxRichIndex
MaxFiles == 2        \* files are added only while at most MaxFiles documents result
MaxCalls == 3        \* Spec: the user makes at most MaxCalls calls
MaxCropIndex == 2    \* SpecCrop: a commit is issued only while patchIndex + 1 <= MaxCropIndex
MaxWindow == 3       \* SpecCrop: the bounds of a crop window are in -1 .. MaxWindow
MaxBase == 1         \* SpecRun: a run of commits starts at a cursor < MaxBase
MaxEditIndex == 1    \* SpecSplit, SpecEdit: a commit is issued only while patchIndex + 1 <= MaxEditIndex
MaxTrackIndex == 2   \* SpecSplit: split is called with a track index in 0 .. MaxTrackIndex
MaxSegmentIndex == 2 \* SpecSplit: split is called with a segment index in 0 .. MaxSegmentIndex
MaxCoordinate == 4   \* SpecSplit: split is called with coordinates in 0 .. MaxCoordinate
MaxStaleIndex == 2   \* SpecStale: a commit is issued only while patchIndex + 1 <= MaxStaleIndex
MaxStaleCalls == 2   \* SpecStale: undo and redo are called at most MaxStaleCalls times
MaxItemsIndex == 1   \* SpecItems: a commit is issued only while patchIndex + 1 <= MaxItemsIndex
MaxItems == 1        \* SpecItems: at most MaxItems tracks, segments and waypoints are selected

\* settings['patchIndex'] is << >> while nothing is stored under the key, <<index>> after.
Undefined == << >>

\* Documents: a GPXFile is its tracks (track -> segments -> points) and its waypoints.
FileA == [trk |-> << << <<1, 2>> >> >>, wpt |-> <<7>>]
FileB == [trk |-> << << <<3>> >>, << <<4, 5>> >> >>, wpt |-> << >>]
NoFile == [trk |-> << >>, wpt |-> << >>]
SampleFiles == {FileA, FileB}

EmptyMap == [i \in {} |-> NoFile]

\* The ids gpx-0, gpx-1, ... are modelled by their numbers.
Ids == 0 .. (MaxFiles + 1)

RECURSIVE SortedSeq(_)
SortedSeq(S) ==
    IF S = {} THEN << >>
    ELSE LET m == CHOOSE x \in S : \A y \in S : x <= y
         IN <<m>> \o SortedSeq(S \ {m})

Reverse(s) == [i \in 1 .. Len(s) |-> s[Len(s) + 1 - i]]

MapSet(m, id, v) == [i \in DOMAIN m \cup {id} |-> IF i = id THEN v ELSE m[i]]
MapDelete(m, id) == [i \in DOMAIN m \ {id} |-> m[i]]

VARIABLES
    dbFileIds,          \* table fileids
    dbFiles,            \* table files: id -> GPXFile
    dbPatches,          \* table patches: index -> {patch, inversePatch, index}
    dbPatchIndex,       \* settings['patchIndex']: Undefined until first written, then <<index>>
    patchQ,             \* requests on patches/settings issued and not yet executed
    fileQ,              \* transactions on fileids/files issued and not yet executed
    fileObservers,      \* ids with a file observer
    fileState,          \* the in-memory map used to generate patches
    patchIndex,         \* store fed by the live query on settings['patchIndex']
    patchMinMaxIndex,   \* store fed by the live query on the keys of patches
    selection,          \* selected file ids
    items,              \* selected tracks, segments and waypoints
    last,               \* observer: the last call of the user and the state it was made in
    chain,              \* observer: commit -> undo -> redo
    run,                \* observer: n commits followed by m undos
    colorCount,         \* GPXLayer: the uses counted for each colour of the palette
    layers,             \* GPXLayer: the layers that are on the map, by file id
    key                 \* updateSelectionFromKey: the call in progress and its locals

progVars == <<dbFileIds, dbFiles, dbPatches, dbPatchIndex, patchQ, fileQ,
              fileObservers, fileState, patchIndex, patchMinMaxIndex, selection, items>>
obsVars == <<last, chain, run>>
uiVars == <<colorCount, layers, key>>
vars == <<dbFileIds, dbFiles, dbPatches, dbPatchIndex, patchQ, fileQ,
          fileObservers, fileState, patchIndex, patchMinMaxIndex, selection, items,
          last, chain, run, colorCount, layers, key>>

----
\* immer

FieldPatches(id, from, to) ==
    LET Op(f) == IF from[f] = to[f] THEN << >>
                 ELSE <<[op |-> "replace", path |-> <<id, f>>, file |-> NoFile, value |-> to[f]]>>
    IN Op("trk") \o Op("wpt")

RECURSIVE DiffIds(_, _, _)
DiffIds(ids, from, to) ==
    IF ids = << >> THEN << >>
    ELSE LET id == Head(ids)
             ops == IF id \notin DOMAIN from
                    THEN <<[op |-> "add", path |-> <<id>>, file |-> to[id], value |-> << >>]>>
                    ELSE IF id \notin DOMAIN to
                    THEN <<[op |-> "remove", path |-> <<id>>, file |-> NoFile, value |-> << >>]>>
                    ELSE FieldPatches(id, from[id], to[id])
         IN ops \o DiffIds(Tail(ids), from, to)

\* produceWithPatches(base, recipe): the patches that lead from base to the state the
\* recipe built, and back; one operation per added, removed or modified map entry.
produceWithPatches(base, next) ==
    LET ids == SortedSeq(DOMAIN base \cup DOMAIN next)
    IN [state |-> next,
        patch |-> DiffIds(ids, base, next),
        inversePatch |-> DiffIds(ids, next, base)]

\* applyPatches: [ok, state]; ok is FALSE when immer throws because the path of an
\* operation does not resolve in the state.
ApplyOne(r, p) ==
    IF ~r.ok THEN r
    ELSE IF Len(p.path) = 1
    THEN IF p.op = "remove" THEN [ok |-> TRUE, state |-> MapDelete(r.state, p.path[1])]
         ELSE [ok |-> TRUE, state |-> MapSet(r.state, p.path[1], p.file)]
    ELSE IF p.path[1] \notin DOMAIN r.state THEN [ok |-> FALSE, state |-> r.state]
         ELSE [ok |-> TRUE,
               state |-> MapSet(r.state, p.path[1],
                                [r.state[p.path[1]] EXCEPT ![p.path[2]] = p.value])]

RECURSIVE ApplyAll(_, _)
ApplyAll(r, patch) ==
    IF patch = << >> THEN r
    ELSE ApplyAll(ApplyOne(r, Head(patch)), Tail(patch))

applyPatches(state, patch) == ApplyAll([ok |-> TRUE, state |-> state], patch)

----
\* db.ts

getChangedFileIds(patch) == {patch[i].path[1] : i \in DOMAIN patch}

RECURSIVE getFileIdsFrom(_, _)
getFileIdsFrom(index, n) ==
    IF n = 0 THEN << >>
    ELSE IF index \notin fileObservers
    THEN <<index>> \o getFileIdsFrom(index + 1, n - 1)
    ELSE getFileIdsFrom(index + 1, n)

getFileIds(n) == getFileIdsFrom(0, n)

\* The value of the store patchMinMaxIndex for the keys of the table; the greatest key
\* is the one key that is no smaller than the others (and has no successor).
MinMax(keys) ==
    IF keys = {} THEN [min |-> 0, max |-> 0]
    ELSE [min |-> CHOOSE k \in keys : \A j \in keys : k <= j,
          max |-> (CHOOSE k \in keys : k + 1 \notin keys /\ \A j \in keys : k >= j) + 1]

\* Variant of canUndo that stops one entry above the lowest.
canUndo_AboveMin == patchIndex > patchMinMaxIndex.min

canUndo == patchIndex >= patchMinMaxIndex.min
\* Variant of canRedo that refuses to redo from the cursor -1.
canRedo_NeedsHistory == patchIndex >= 0 /\ patchIndex < patchMinMaxIndex.max - 1

canRedo == patchIndex < patchMinMaxIndex.max - 1

Request(t, k, patch, inversePatch) ==
    [t |-> t, k |-> k, patch |-> patch, inversePatch |-> inversePatch]

\* Variants of storePatches, each wrong in one respect, against which the claims on
\* the log are tried: the redo tail is kept; nothing is pruned; the new entry skips
\* an index.
storePatches_KeepsTail(patch, inversePatch) ==
    LET prune == IF patchMinMaxIndex.max - patchMinMaxIndex.min + 1 > MAX_PATCHES
                 THEN <<Request("deleteBelowOrEqual", patchMinMaxIndex.max - MAX_PATCHES, << >>, << >>)>>
                 ELSE << >>
        put == <<Request("put", patchIndex + 1, patch, inversePatch)>>
    IN prune \o put

storePatches_NeverPrunes(patch, inversePatch) ==
    LET tail == <<Request("deleteAbove", patchIndex, << >>, << >>)>>
        put == <<Request("put", patchIndex + 1, patch, inversePatch)>>
    IN tail \o put

storePatches_SkipsIndex(patch, inversePatch) ==
    LET tail == <<Request("deleteAbove", patchIndex, << >>, << >>)>>
        prune == IF patchMinMaxIndex.max - patchMinMaxIndex.min + 1 > MAX_PATCHES
                 THEN <<Request("deleteBelowOrEqual", patchMinMaxIndex.max - MAX_PATCHES, << >>, << >>)>>
                 ELSE << >>
        put == <<Request("put", patchIndex + 2, patch, inversePatch)>>
    IN tail \o prune \o put

storePatches(patch, inversePatch) ==
    LET tail == <<Request("deleteAbove", patchIndex, << >>, << >>)>>
        prune == IF patchMinMaxIndex.max - patchMinMaxIndex.min + 1 > MAX_PATCHES
                 THEN <<Request("deleteBelowOrEqual", patchMinMaxIndex.max - MAX_PATCHES, << >>, << >>)>>
                 ELSE << >>
        put == <<Request("put", patchIndex + 1, patch, inversePatch)>>
    IN tail \o prune \o put

\* Only file items are selected here: a selected file goes when it is deleted.
updateSelection(sel, updatedFileIds, deletedFileIds) == sel \ deletedFileIds

\* An item below the file level: a track, a segment, a waypoint or the waypoints of a
\* file; the indices it does not use are -1.
Item(fileId, level, trackIndex, segmentIndex, waypointIndex) ==
    [fileId |-> fileId, level |-> level, trackIndex |-> trackIndex,
     segmentIndex |-> segmentIndex, waypointIndex |-> waypointIndex]

\* file.trk.findIndex((track) => track._data.trackIndex === trackIndex), and the same
\* for the segments of a track and for the waypoints: the indices kept in _data are
\* 0 .. n - 1 in the order of the list.
findIndex(list, index) == IF index + 1 \in DOMAIN list THEN index ELSE -1

\* Variant of updateSelection that looks for the track of a segment item only.
updateSelection_items_TrackOnly(its, newFileState, updatedFileIds, deletedFileIds) ==
    {item \in its :
        IF item.fileId \in updatedFileIds
        THEN LET file == newFileState[item.fileId]
             IN CASE item.level \in {"track", "segment"} ->
                       findIndex(file.trk, item.trackIndex) # -1
                  [] item.level = "waypoint" -> findIndex(file.wpt, item.waypointIndex) # -1
                  [] OTHER -> TRUE
        ELSE item.fileId \notin deletedFileIds}

\* updateSelection, the items below the file level: the items that are kept
updateSelection_items(its, newFileState, updatedFileIds, deletedFileIds) ==
    {item \in its :
        IF item.fileId \in updatedFileIds
        THEN LET file == newFileState[item.fileId]
                 newTrackIndex == findIndex(file.trk, item.trackIndex)
             IN CASE item.level = "track" -> newTrackIndex # -1
                  [] item.level = "segment" ->
                       /\ newTrackIndex # -1
                       /\ findIndex(file.trk[newTrackIndex + 1], item.segmentIndex) # -1
                  [] item.level = "waypoint" -> findIndex(file.wpt, item.waypointIndex) # -1
                  [] OTHER -> TRUE
        ELSE item.fileId \notin deletedFileIds}

\* Variant of commitFileStateChange that writes each changed file in a transaction
\* of its own.
commitFileStateChange_PerFile(newFileState, patch) ==
    LET changedFileIds == getChangedFileIds(patch)
        updatedFileIds == {id \in changedFileIds : id \in DOMAIN newFileState}
        deletedFileIds == changedFileIds \ updatedFileIds
        ids == SortedSeq(changedFileIds)
    IN /\ selection' = updateSelection(selection, updatedFileIds, deletedFileIds)
       /\ items' = updateSelection_items(items, newFileState, updatedFileIds, deletedFileIds)
       /\ fileQ' = fileQ \o
              [i \in DOMAIN ids |->
                  IF ids[i] \in updatedFileIds
                  THEN [put |-> [id \in {ids[i]} |-> newFileState[id]], delete |-> {}]
                  ELSE [put |-> EmptyMap, delete |-> {ids[i]}]]

\* Variant of commitFileStateChange that writes every file of the new state.
commitFileStateChange_AllFiles(newFileState, patch) ==
    LET changedFileIds == getChangedFileIds(patch)
        updatedFileIds == {id \in changedFileIds : id \in DOMAIN newFileState}
        deletedFileIds == changedFileIds \ updatedFileIds
    IN /\ selection' = updateSelection(selection, updatedFileIds, deletedFileIds)
       /\ items' = updateSelection_items(items, newFileState, updatedFileIds, deletedFileIds)
       /\ fileQ' = Append(fileQ, [put |-> newFileState, delete |-> deletedFileIds])

commitFileStateChange(newFileState, patch) ==
    LET changedFileIds == getChangedFileIds(patch)
        updatedFileIds == {id \in changedFileIds : id \in DOMAIN newFileState}
        deletedFileIds == changedFileIds \ updatedFileIds
    IN /\ selection' = updateSelection(selection, updatedFileIds, deletedFileIds)
       /\ items' = updateSelection_items(items, newFileState, updatedFileIds, deletedFileIds)
       /\ fileQ' = Append(fileQ, [put |-> [id \in updatedFileIds |-> newFileState[id]],
                                  delete |-> deletedFileIds])

\* Variant of applyGlobal that stores the two patches of the pair in each other's place.
applyGlobal_SwappedPair(newFileState) ==
    LET p == produceWithPatches(fileState, newFileState)
    IN /\ patchQ' = patchQ \o storePatches(p.inversePatch, p.patch)
       /\ commitFileStateChange(newFileState, p.patch)
       /\ UNCHANGED <<dbFileIds, dbFiles, dbPatches, dbPatchIndex,
                      fileObservers, fileState, patchIndex, patchMinMaxIndex>>

applyGlobal(newFileState) ==
    LET p == produceWithPatches(fileState, newFileState)
    IN /\ patchQ' = patchQ \o storePatches(p.patch, p.inversePatch)
       /\ commitFileStateChange(newFileState, p.patch)
       /\ UNCHANGED <<dbFileIds, dbFiles, dbPatches, dbPatchIndex,
                      fileObservers, fileState, patchIndex, patchMinMaxIndex>>


\* GPXFile.reverse: the order of the points of the whole file is reversed.
reverse(file) ==
    [trk |-> Reverse([t \in DOMAIN file.trk |->
                 Reverse([s \in DOMAIN file.trk[t] |-> Reverse(file.trk[t][s])])]),
     wpt |-> file.wpt]

RECURSIVE SetAll(_, _, _)
SetAll(m, ids, files) ==
    IF ids = << >> THEN m
    ELSE SetAll(MapSet(m, Head(ids), Head(files)), Tail(ids), Tail(files))

\* dbUtils.add
add(file) == applyGlobal(MapSet(fileState, getFileIds(1)[1], file))

\* dbUtils.addMultiple
addMultiple(files) == applyGlobal(SetAll(fileState, getFileIds(Len(files)), files))

\* dbUtils.deleteSelectedFiles
deleteSelectedFiles ==
    /\ selection # {}
    /\ applyGlobal([id \in DOMAIN fileState \ selection |-> fileState[id]])

\* dbUtils.deleteAllFiles
deleteAllFiles == applyGlobal(EmptyMap)

\* dbUtils.reverseSelection, file items
reverseSelection ==
    /\ selection # {}
    /\ applyGlobal([id \in DOMAIN fileState |->
                       IF id \in selection THEN reverse(fileState[id]) ELSE fileState[id]])

Max(a, b) == IF a >= b THEN a ELSE b
Min(a, b) == IF a <= b THEN a ELSE b

RECURSIVE SumLen(_)
SumLen(seqs) == IF seqs = << >> THEN 0 ELSE Len(Head(seqs)) + SumLen(Tail(seqs))

\* GPXFile.getNumberOfTrackPoints: the points of all segments of all tracks.
RECURSIVE getNumberOfTrackPoints_trk(_)
getNumberOfTrackPoints_trk(trk) ==
    IF trk = << >> THEN 0
    ELSE SumLen(Head(trk)) + getNumberOfTrackPoints_trk(Tail(trk))

getNumberOfTrackPoints(file) == getNumberOfTrackPoints_trk(file.trk)

\* GPXFile.crop(start, end): the points whose index in the file is in start .. end are
\* kept; a segment left without points goes, and so does a track left without segments.
RECURSIVE cropSegments(_, _, _)
cropSegments(segs, start, end) ==
    IF segs = << >> THEN << >>
    ELSE LET seg == Head(segs)
             kept == SubSeq(seg, Max(1, start + 1), Min(Len(seg), end + 1))
         IN (IF kept = << >> THEN << >> ELSE <<kept>>)
            \o cropSegments(Tail(segs), start - Len(seg), end - Len(seg))

RECURSIVE cropTracks(_, _, _)
cropTracks(trk, start, end) ==
    IF trk = << >> THEN << >>
    ELSE LET kept == cropSegments(Head(trk), start, end)
             length == SumLen(Head(trk))
         IN (IF kept = << >> THEN << >> ELSE <<kept>>)
            \o cropTracks(Tail(trk), start - length, end - length)

crop(file, start, end) == [file EXCEPT !.trk = cropTracks(file.trk, start, end)]

\* Variants of the traversal of cropSelection: the file is kept when start is exactly
\* its number of points; end is taken as exclusive.
RECURSIVE cropSelection_files_StrictStart(_, _, _, _)
cropSelection_files_StrictStart(draft, ids, start, end) ==
    IF ids = << >> THEN draft
    ELSE IF Head(ids) \notin DOMAIN draft
    THEN cropSelection_files_StrictStart(draft, Tail(ids), start, end)
    ELSE LET fileId == Head(ids)
             length == getNumberOfTrackPoints(draft[fileId])
             next == IF start > length \/ end < 0
                     THEN MapDelete(draft, fileId)
                     ELSE IF start > 0 \/ end < length - 1
                     THEN MapSet(draft, fileId,
                                 crop(draft[fileId], Max(0, start), Min(length - 1, end)))
                     ELSE draft
         IN cropSelection_files_StrictStart(next, Tail(ids), start - length, end - length)

RECURSIVE cropSelection_files_ExclusiveEnd(_, _, _, _)
cropSelection_files_ExclusiveEnd(draft, ids, start, end) ==
    IF ids = << >> THEN draft
    ELSE IF Head(ids) \notin DOMAIN draft
    THEN cropSelection_files_ExclusiveEnd(draft, Tail(ids), start, end)
    ELSE LET fileId == Head(ids)
             length == getNumberOfTrackPoints(draft[fileId])
             next == IF start >= length \/ end < 0
                     THEN MapDelete(draft, fileId)
                     ELSE IF start > 0 \/ end < length
                     THEN MapSet(draft, fileId,
                                 crop(draft[fileId], Max(0, start), Min(length, end) - 1))
                     ELSE draft
         IN cropSelection_files_ExclusiveEnd(next, Tail(ids), start - length, end - length)

\* dbUtils.cropSelection, the callback of applyGlobal: the selected files are visited
\* in order, and the window moves down by the length of each file visited.
RECURSIVE cropSelection_files(_, _, _, _)
cropSelection_files(draft, ids, start, end) ==
    IF ids = << >> THEN draft
    ELSE IF Head(ids) \notin DOMAIN draft
    THEN cropSelection_files(draft, Tail(ids), start, end)
    ELSE LET fileId == Head(ids)
             length == getNumberOfTrackPoints(draft[fileId])
             next == IF start >= length \/ end < 0
                     THEN MapDelete(draft, fileId)
                     ELSE IF start > 0 \/ end < length - 1
                     THEN MapSet(draft, fileId,
                                 crop(draft[fileId], Max(0, start), Min(length - 1, end)))
                     ELSE draft
         IN cropSelection_files(next, Tail(ids), start - length, end - length)

\* dbUtils.cropSelection, file items
cropSelection(start, end) ==
    /\ selection # {}
    /\ applyGlobal(cropSelection_files(fileState, SortedSeq(selection), start, end))


----
\* The edits of the toolbar that restructure documents: split, extractSelection and
\* mergeSelection. Points and waypoints are their coordinates on a line.

\* Number.MAX_VALUE, as a number above every distance between two coordinates here
MAX_VALUE == 1000

\* A document of two tracks (the first of two segments) with a waypoint as near to one
\* track as to the other and a waypoint nearest to the second track; a document of one
\* track of two segments with a waypoint nearest to the first segment and a waypoint
\* as near to one segment as to the other.
FileC == [trk |-> << << <<0, 2, 4, 2>>, <<6>> >>, << <<4, 8>> >> >>, wpt |-> <<3, 8>>]
FileD == [trk |-> << << <<1, 3>>, <<5>> >> >>, wpt |-> <<2, 4>>]

SplitTypes == {"files", "tracks", "segments"}

RECURSIVE Concat(_)
Concat(ss) == IF ss = << >> THEN << >> ELSE Head(ss) \o Concat(Tail(ss))

\* getFile: the file of the store of fileObservers, Undefined when there is none
getFile(fileId) ==
    IF fileId \in fileObservers /\ fileId \in DOMAIN fileState
    THEN <<fileState[fileId]>>
    ELSE Undefined

\* distance between two coordinates
distance(a, b) == IF a >= b THEN a - b ELSE b - a

\* TrackSegment.crop(start, end): the points start .. end are kept
cropSegment(segment, start, end) == SubSeq(segment, Max(1, start + 1), Min(Len(segment), end + 1))

\* GPXFile.replaceTracks(start, end, tracks), replaceTrackSegments(trackIndex, start,
\* end, segments) and replaceWaypoints(start, end, waypoints): the items start .. end
\* are replaced by the given ones.
replaceTracks(file, start, end, tracks) ==
    [file EXCEPT !.trk = SubSeq(@, 1, Min(start, Len(@))) \o tracks
                            \o SubSeq(@, end + 2, Len(@))]

replaceTrackSegments(file, trackIndex, start, end, segments) ==
    [file EXCEPT !.trk[trackIndex + 1] =
        SubSeq(@, 1, Min(start, Len(@))) \o segments \o SubSeq(@, end + 2, Len(@))]

replaceWaypoints(file, start, end, waypoints) ==
    [file EXCEPT !.wpt = SubSeq(@, 1, Min(start, Len(@))) \o waypoints
                            \o SubSeq(@, end + 2, Len(@))]

\* Variant of the search of split that keeps the last of the points at the least distance.
RECURSIVE split_closest_LastMinimal(_, _, _, _, _)
split_closest_LastMinimal(trkpt, coordinates, i, minDistance, minIndex) ==
    IF i >= Len(trkpt) THEN minIndex
    ELSE LET dist == distance(trkpt[i + 1], coordinates)
         IN IF dist <= minDistance
            THEN split_closest_LastMinimal(trkpt, coordinates, i + 1, dist, i)
            ELSE split_closest_LastMinimal(trkpt, coordinates, i + 1, minDistance, minIndex)

\* dbUtils.split, the loop that finds the point closest to the coordinates: i is the
\* loop index, minDistance and minIndex the loop's variables.
RECURSIVE split_closest(_, _, _, _, _)
split_closest(trkpt, coordinates, i, minDistance, minIndex) ==
    IF i >= Len(trkpt) THEN minIndex
    ELSE LET dist == distance(trkpt[i + 1], coordinates)
         IN IF dist < minDistance
            THEN split_closest(trkpt, coordinates, i + 1, dist, i)
            ELSE split_closest(trkpt, coordinates, i + 1, minDistance, minIndex)

\* dbUtils.split: the index of the closest point counted from the start of the file
\* (split into files) or of the track.
\* Variant of the absolute index of split that never counts the tracks before the track.
split_absoluteIndex_InTrack(file, trackIndex, segmentIndex, minIndex, splitType) ==
    minIndex + SumLen(SubSeq(file.trk[trackIndex + 1], 1, segmentIndex))

split_absoluteIndex(file, trackIndex, segmentIndex, minIndex, splitType) ==
    minIndex
    + (IF splitType = "files"
       THEN getNumberOfTrackPoints_trk(SubSeq(file.trk, 1, trackIndex))
       ELSE 0)
    + SumLen(SubSeq(file.trk[trackIndex + 1], 1, segmentIndex))

\* dbUtils.split reads file.trk[trackIndex].trkseg[segmentIndex].trkpt: a TypeError
\* when the track or the segment is not there.
split_throws(fileId, trackIndex, segmentIndex) ==
    /\ getFile(fileId) # Undefined
    /\ LET file == getFile(fileId)[1]
       IN \/ trackIndex + 1 \notin DOMAIN file.trk
          \/ segmentIndex + 1 \notin DOMAIN file.trk[trackIndex + 1]

\* dbUtils.split, the callback of applyGlobal
split_draft(draft, fileId, trackIndex, segmentIndex, coordinates, splitType) ==
    LET file == getFile(fileId)[1]
        segment == file.trk[trackIndex + 1][segmentIndex + 1]
        minIndex == split_closest(segment, coordinates, 0, MAX_VALUE, 0)
        absoluteIndex == split_absoluteIndex(file, trackIndex, segmentIndex, minIndex, splitType)
    IN IF fileId \notin DOMAIN draft THEN draft
       ELSE CASE splitType = "files" ->
                   MapSet(MapSet(draft, fileId, crop(draft[fileId], 0, absoluteIndex)),
                          getFileIds(1)[1],
                          crop(file, absoluteIndex, getNumberOfTrackPoints(file) - 1))
              [] splitType = "tracks" ->
                   MapSet(draft, fileId,
                          replaceTracks(draft[fileId], trackIndex, trackIndex,
                              <<cropSegments(file.trk[trackIndex + 1], 0, absoluteIndex),
                                cropSegments(file.trk[trackIndex + 1], absoluteIndex,
                                             SumLen(file.trk[trackIndex + 1]) - 1)>>))
              [] splitType = "segments" ->
                   MapSet(draft, fileId,
                          replaceTrackSegments(draft[fileId], trackIndex, segmentIndex, segmentIndex,
                              <<cropSegment(segment, 0, minIndex),
                                cropSegment(segment, minIndex, Len(segment) - 1)>>))

\* dbUtils.split: without the file the callback leaves the draft alone; the TypeError
\* leaves applyGlobal before anything is stored.
split(fileId, trackIndex, segmentIndex, coordinates, splitType) ==
    IF getFile(fileId) = Undefined
    THEN applyGlobal(fileState)
    ELSE IF split_throws(fileId, trackIndex, segmentIndex)
    THEN UNCHANGED progVars
    ELSE applyGlobal(split_draft(fileState, fileId, trackIndex, segmentIndex,
                                 coordinates, splitType))

\* dbUtils.extractSelection: the points of the file in the order of the loops, each with
\* the index of its track (several tracks) or of its segment (one track).
extract_points(file) ==
    IF Len(file.trk) > 1
    THEN Concat([t \in DOMAIN file.trk |->
                    LET pts == Concat(file.trk[t])
                    IN [j \in DOMAIN pts |-> [index |-> t - 1, point |-> pts[j]]]])
    ELSE Concat([s \in DOMAIN file.trk[1] |->
                    [j \in DOMAIN file.trk[1][s] |->
                        [index |-> s - 1, point |-> file.trk[1][s][j]]]])

\* Variant of the loop over the points that keeps one index per waypoint only.
RECURSIVE extract_closest_FirstOnly(_, _, _)
extract_closest_FirstOnly(c, pairs, wpt) ==
    IF pairs = << >> THEN c
    ELSE LET dist == distance(Head(pairs).point, wpt)
             next == IF dist < c.distance
                     THEN [index |-> <<Head(pairs).index>>, distance |-> dist]
                     ELSE c
         IN extract_closest_FirstOnly(next, Tail(pairs), wpt)

\* dbUtils.extractSelection, the loop over the points for one waypoint: c is
\* closest[wptIndex].
RECURSIVE extract_closest(_, _, _)
extract_closest(c, pairs, wpt) ==
    IF pairs = << >> THEN c
    ELSE LET dist == distance(Head(pairs).point, wpt)
             next == IF dist < c.distance
                     THEN [index |-> <<Head(pairs).index>>, distance |-> dist]
                     ELSE IF dist = c.distance
                     THEN [c EXCEPT !.index = Append(@, Head(pairs).index)]
                     ELSE c
         IN extract_closest(next, Tail(pairs), wpt)

\* closest.filter((c) => c.index.includes(index)).map((c) => file.wpt[c.wptIndex])
extract_waypoints(file, index) ==
    LET closest == [w \in DOMAIN file.wpt |->
                       [wptIndex |-> w,
                        c |-> extract_closest([index |-> <<0>>, distance |-> MAX_VALUE],
                                              extract_points(file), file.wpt[w])]]
        includes(e) == \E k \in DOMAIN e.c.index : e.c.index[k] = index
        kept == SelectSeq(closest, includes)
    IN [k \in DOMAIN kept |-> file.wpt[kept[k].wptIndex]]

\* dbUtils.extractSelection: the new file made for the track (several tracks) or the
\* segment (one track) of the given index.
extract_newFile(file, index) ==
    IF Len(file.trk) > 1
    THEN LET track == file.trk[index + 1]
             tracks == [s \in DOMAIN track |-> <<track[s]>>]
         IN replaceWaypoints(replaceTracks(file, 0, Len(file.trk) - 1, tracks),
                             0, Len(file.wpt) - 1, extract_waypoints(file, index))
    ELSE replaceWaypoints(
             replaceTrackSegments(file, 0, 0, Len(file.trk[1]) - 1, <<file.trk[1][index + 1]>>),
             0, Len(file.wpt) - 1, extract_waypoints(file, index))

\* Variant of the traversal of extractSelection that keeps the file it extracts from.
RECURSIVE extractSelection_files_KeepsSource(_, _)
extractSelection_files_KeepsSource(draft, ids) ==
    IF ids = << >> THEN draft
    ELSE IF getFile(Head(ids)) = Undefined
    THEN extractSelection_files_KeepsSource(draft, Tail(ids))
    ELSE LET file == getFile(Head(ids))[1]
             n == IF Len(file.trk) > 1 THEN Len(file.trk)
                  ELSE IF Len(file.trk) = 1 THEN Len(file.trk[1]) ELSE 0
             fileIds == getFileIds(n)
             newFiles == [index \in 1 .. n |-> extract_newFile(file, index - 1)]
         IN extractSelection_files_KeepsSource(SetAll(draft, fileIds, newFiles), Tail(ids))

\* dbUtils.extractSelection, the callback of the traversal for file items
RECURSIVE extractSelection_files(_, _)
extractSelection_files(draft, ids) ==
    IF ids = << >> THEN draft
    ELSE IF getFile(Head(ids)) = Undefined
    THEN extractSelection_files(draft, Tail(ids))
    ELSE LET file == getFile(Head(ids))[1]
             n == IF Len(file.trk) > 1 THEN Len(file.trk)
                  ELSE IF Len(file.trk) = 1 THEN Len(file.trk[1]) ELSE 0
             fileIds == getFileIds(n)
             newFiles == [index \in 1 .. n |-> extract_newFile(file, index - 1)]
         IN extractSelection_files(MapDelete(SetAll(draft, fileIds, newFiles), Head(ids)),
                                   Tail(ids))

\* dbUtils.extractSelection, file items
extractSelection == applyGlobal(extractSelection_files(fileState, SortedSeq(selection)))

NoMerge == [draft |-> EmptyMap, first |-> TRUE, target |-> Undefined,
            trk |-> << >>, wpt |-> << >>]

\* Variant of the traversal of mergeSelection that gathers the waypoints of the target
\* only.
RECURSIVE mergeSelection_files_TargetWaypoints(_, _)
mergeSelection_files_TargetWaypoints(acc, ids) ==
    IF ids = << >> THEN acc
    ELSE LET fileId == Head(ids)
             originalFile == getFile(fileId)
         IN IF fileId \in DOMAIN acc.draft /\ originalFile # Undefined
            THEN mergeSelection_files_TargetWaypoints(
                     [draft |-> IF acc.first THEN acc.draft ELSE MapDelete(acc.draft, fileId),
                      first |-> FALSE,
                      target |-> IF acc.first THEN <<fileId>> ELSE acc.target,
                      trk |-> acc.trk \o originalFile[1].trk,
                      wpt |-> IF acc.first THEN originalFile[1].wpt ELSE acc.wpt],
                     Tail(ids))
            ELSE mergeSelection_files_TargetWaypoints(acc, Tail(ids))

\* dbUtils.mergeSelection, the callback of the traversal for file items: acc holds the
\* draft and the variables first, target, toMerge.trk and toMerge.wpt.
RECURSIVE mergeSelection_files(_, _)
mergeSelection_files(acc, ids) ==
    IF ids = << >> THEN acc
    ELSE LET fileId == Head(ids)
             originalFile == getFile(fileId)
         IN IF fileId \in DOMAIN acc.draft /\ originalFile # Undefined
            THEN mergeSelection_files(
                     [draft |-> IF acc.first THEN acc.draft ELSE MapDelete(acc.draft, fileId),
                      first |-> FALSE,
                      target |-> IF acc.first THEN <<fileId>> ELSE acc.target,
                      trk |-> acc.trk \o originalFile[1].trk,
                      wpt |-> acc.wpt \o originalFile[1].wpt],
                     Tail(ids))
            ELSE mergeSelection_files(acc, Tail(ids))

\* dbUtils.mergeSelection, the callback of applyGlobal: with mergeTraces the points of
\* all the gathered tracks go into one segment of the first of them.
mergeSelection_draft(mergeTraces) ==
    LET acc == mergeSelection_files([NoMerge EXCEPT !.draft = fileState], SortedSeq(selection))
        trk == IF mergeTraces /\ Len(acc.trk) > 0 /\ Len(acc.trk[1]) > 0
               THEN << <<Concat(Concat(acc.trk))>> >>
               ELSE acc.trk
    IN IF acc.target = Undefined THEN acc.draft
       ELSE LET targetFile == acc.draft[acc.target[1]]
            IN MapSet(acc.draft, acc.target[1],
                      replaceWaypoints(
                          replaceTracks(targetFile, 0, Len(targetFile.trk) - 1, trk),
                          0, Len(targetFile.wpt) - 1, acc.wpt))

\* dbUtils.mergeSelection, file items
mergeSelection(mergeTraces) == applyGlobal(mergeSelection_draft(mergeTraces))


\* sortItems(items, reverse) of the selection traversal: the items of a file by track,
\* segment and waypoint index; the traversal hands them over with the highest first
\* (reverse is true unless the caller says otherwise).
ItemBefore(a, b) ==
    \/ a.trackIndex < b.trackIndex
    \/ a.trackIndex = b.trackIndex /\ a.segmentIndex < b.segmentIndex
    \/ a.trackIndex = b.trackIndex /\ a.segmentIndex = b.segmentIndex
          /\ a.waypointIndex < b.waypointIndex

\* Variant of sortItems that hands the items over with the lowest first.
RECURSIVE sortItems_Ascending(_)
sortItems_Ascending(its) ==
    IF its = {} THEN << >>
    ELSE LET m == CHOOSE x \in its : \A y \in its : y = x \/ ItemBefore(x, y)
         IN <<m>> \o sortItems_Ascending(its \ {m})

RECURSIVE sortItems(_)
sortItems(its) ==
    IF its = {} THEN << >>
    ELSE LET m == CHOOSE x \in its : \A y \in its : y = x \/ ItemBefore(y, x)
         IN <<m>> \o sortItems(its \ {m})

\* dbUtils.deleteSelection, the loops over the items of one file below the file level
RECURSIVE deleteSelection_items(_, _, _)
deleteSelection_items(file, level, list) ==
    IF list = << >> THEN file
    ELSE LET item == Head(list)
         IN deleteSelection_items(
                IF level = "track"
                THEN replaceTracks(file, item.trackIndex, item.trackIndex, << >>)
                ELSE IF level = "segment"
                THEN replaceTrackSegments(file, item.trackIndex, item.segmentIndex,
                                          item.segmentIndex, << >>)
                ELSE IF level = "waypoint"
                THEN replaceWaypoints(file, item.waypointIndex, item.waypointIndex, << >>)
                ELSE file,
                level, Tail(list))

\* The level the traversal gives for a file: the level of its selected items
levelOf(fileId) ==
    IF fileId \in selection THEN "file"
    ELSE (CHOOSE item \in items : item.fileId = fileId).level

\* dbUtils.deleteSelection, the callback of the traversal for the files in their order
RECURSIVE deleteSelection_files(_, _)
deleteSelection_files(draft, ids) ==
    IF ids = << >> THEN draft
    ELSE LET fileId == Head(ids)
             level == levelOf(fileId)
             list == sortItems({item \in items : item.fileId = fileId})
         IN deleteSelection_files(
                IF level = "file" THEN MapDelete(draft, fileId)
                ELSE IF fileId \notin DOMAIN draft THEN draft
                ELSE IF level = "waypoints"
                THEN MapSet(draft, fileId,
                            replaceWaypoints(draft[fileId], 0, Len(draft[fileId].wpt) - 1,
                                             << >>))
                ELSE MapSet(draft, fileId,
                            deleteSelection_items(draft[fileId], level, list)),
                Tail(ids))

\* dbUtils.deleteSelection
deleteSelection ==
    IF selection = {} /\ items = {}
    THEN UNCHANGED progVars
    ELSE applyGlobal(deleteSelection_files(
             fileState, SortedSeq(selection \cup {item.fileId : item \in items})))

undo_Unguarded ==
    /\ patchQ' = Append(patchQ, Request("undo", patchIndex, << >>, << >>))
    /\ UNCHANGED <<dbFileIds, dbFiles, dbPatches, dbPatchIndex, fileQ,
                   fileObservers, fileState, patchIndex, patchMinMaxIndex, selection, items>>

\* dbUtils.undo: the handler; the patch is read and applied when the database answers.
undo ==
    /\ IF canUndo
       THEN patchQ' = Append(patchQ, Request("undo", patchIndex, << >>, << >>))
       ELSE UNCHANGED patchQ
    /\ UNCHANGED <<dbFileIds, dbFiles, dbPatches, dbPatchIndex, fileQ,
                   fileObservers, fileState, patchIndex, patchMinMaxIndex, selection, items>>

\* Variant of redo that reads the entry under the cursor instead of the one above it.
redo_AtCursor ==
    /\ IF canRedo
       THEN patchQ' = Append(patchQ, Request("redo", patchIndex, << >>, << >>))
       ELSE UNCHANGED patchQ
    /\ UNCHANGED <<dbFileIds, dbFiles, dbPatches, dbPatchIndex, fileQ,
                   fileObservers, fileState, patchIndex, patchMinMaxIndex, selection, items>>

\* dbUtils.redo
redo ==
    /\ IF canRedo
       THEN patchQ' = Append(patchQ, Request("redo", patchIndex + 1, << >>, << >>))
       ELSE UNCHANGED patchQ
    /\ UNCHANGED <<dbFileIds, dbFiles, dbPatches, dbPatchIndex, fileQ,
                   fileObservers, fileState, patchIndex, patchMinMaxIndex, selection, items>>

\* Variant of applyPatch that stores the applied patch as a log entry, as a commit does.
applyPatch_StoresEntry(patch, index) ==
    LET newFileState == applyPatches(fileState, patch)
    IN IF ~newFileState.ok
       THEN /\ patchQ' = Tail(patchQ)
            /\ UNCHANGED <<fileQ, selection, items>>
       ELSE /\ commitFileStateChange(newFileState.state, patch)
            /\ patchQ' = Append(Tail(patchQ), Request("put", index, patch, patch))

\* Variant of applyPatch that leaves the cursor where it is.
applyPatch_KeepsCursor(patch, index) ==
    LET newFileState == applyPatches(fileState, patch)
    IN IF ~newFileState.ok
       THEN /\ patchQ' = Tail(patchQ)
            /\ UNCHANGED <<fileQ, selection, items>>
       ELSE /\ commitFileStateChange(newFileState.state, patch)
            /\ patchQ' = Tail(patchQ)

\* Variant of applyPatch that writes the cursor also when the patch cannot be applied.
applyPatch_CursorOnFailure(patch, index) ==
    LET newFileState == applyPatches(fileState, patch)
    IN IF ~newFileState.ok
       THEN /\ patchQ' = Append(Tail(patchQ), Request("putIndex", index, << >>, << >>))
            /\ UNCHANGED <<fileQ, selection, items>>
       ELSE /\ commitFileStateChange(newFileState.state, patch)
            /\ patchQ' = Append(Tail(patchQ), Request("putIndex", index, << >>, << >>))

\* applyPatch, called with the entry the database returned for undo or redo
applyPatch(patch, index) ==
    LET newFileState == applyPatches(fileState, patch)
    IN IF ~newFileState.ok
       THEN /\ patchQ' = Tail(patchQ)
            /\ UNCHANGED <<fileQ, selection, items>>
       ELSE /\ commitFileStateChange(newFileState.state, patch)
            /\ patchQ' = Append(Tail(patchQ), Request("putIndex", index, << >>, << >>))

\* The database executes the oldest request on the tables patches and settings.
DbPatches ==
    /\ patchQ # << >>
    /\ LET r == Head(patchQ)
       IN CASE r.t = "deleteAbove" ->
                 /\ dbPatches' = [i \in {j \in DOMAIN dbPatches : j <= r.k} |-> dbPatches[i]]
                 /\ patchQ' = Tail(patchQ)
                 /\ UNCHANGED <<dbPatchIndex, fileQ, selection, items>>
            [] r.t = "deleteBelowOrEqual" ->
                 /\ dbPatches' = [i \in {j \in DOMAIN dbPatches : j > r.k} |-> dbPatches[i]]
                 /\ patchQ' = Tail(patchQ)
                 /\ UNCHANGED <<dbPatchIndex, fileQ, selection, items>>
            [] r.t = "put" ->
                 /\ dbPatches' = MapSet(dbPatches, r.k,
                        [patch |-> r.patch, inversePatch |-> r.inversePatch, index |-> r.k])
                 /\ dbPatchIndex' = <<r.k>>
                 /\ patchQ' = Tail(patchQ)
                 /\ UNCHANGED <<fileQ, selection, items>>
            [] r.t = "putIndex" ->
                 /\ dbPatchIndex' = <<r.k>>
                 /\ patchQ' = Tail(patchQ)
                 /\ UNCHANGED <<dbPatches, fileQ, selection, items>>
            [] r.t = "undo" ->
                 /\ IF r.k \in DOMAIN dbPatches
                    THEN applyPatch(dbPatches[r.k].inversePatch, r.k - 1)
                    ELSE patchQ' = Tail(patchQ) /\ UNCHANGED <<fileQ, selection, items>>
                 /\ UNCHANGED <<dbPatches, dbPatchIndex>>
            [] r.t = "redo" ->
                 /\ IF r.k \in DOMAIN dbPatches
                    THEN applyPatch(dbPatches[r.k].patch, r.k)
                    ELSE patchQ' = Tail(patchQ) /\ UNCHANGED <<fileQ, selection, items>>
                 /\ UNCHANGED <<dbPatches, dbPatchIndex>>
    /\ UNCHANGED <<dbFileIds, dbFiles, fileObservers, fileState, patchIndex,
                   patchMinMaxIndex, last, chain, run>>
    /\ UNCHANGED uiVars

\* The database executes the oldest transaction on the tables fileids and files.
DbFiles ==
    /\ fileQ # << >>
    /\ LET t == Head(fileQ)
       IN /\ dbFileIds' = (dbFileIds \cup DOMAIN t.put) \ t.delete
          /\ dbFiles' = [id \in (DOMAIN dbFiles \cup DOMAIN t.put) \ t.delete |->
                            IF id \in DOMAIN t.put THEN t.put[id] ELSE dbFiles[id]]
    /\ fileQ' = Tail(fileQ)
    /\ UNCHANGED <<dbPatches, dbPatchIndex, patchQ, fileObservers, fileState,
                   patchIndex, patchMinMaxIndex, selection, items, last, chain, run>>
    /\ UNCHANGED uiVars

\* liveQuery(() => db.settings.get('patchIndex'))
NotifyPatchIndex ==
    /\ dbPatchIndex # Undefined
    /\ patchIndex # dbPatchIndex[1]
    /\ patchIndex' = dbPatchIndex[1]
    /\ UNCHANGED <<dbFileIds, dbFiles, dbPatches, dbPatchIndex, patchQ, fileQ,
                   fileObservers, fileState, patchMinMaxIndex, selection, items, last, chain, run>>
    /\ UNCHANGED uiVars

\* liveQuery(() => db.patches.orderBy(':id').keys())
NotifyPatchMinMaxIndex ==
    /\ patchMinMaxIndex # MinMax(DOMAIN dbPatches)
    /\ patchMinMaxIndex' = MinMax(DOMAIN dbPatches)
    /\ UNCHANGED <<dbFileIds, dbFiles, dbPatches, dbPatchIndex, patchQ, fileQ,
                   fileObservers, fileState, patchIndex, selection, items, last, chain, run>>
    /\ UNCHANGED uiVars

\* liveQuery(() => db.fileids.toArray()): observers are created and destroyed
NotifyFileIds ==
    /\ fileObservers # dbFileIds
    /\ fileObservers' = dbFileIds
    /\ fileState' = [id \in DOMAIN fileState \cap dbFileIds |-> fileState[id]]
    /\ UNCHANGED <<dbFileIds, dbFiles, dbPatches, dbPatchIndex, patchQ, fileQ,
                   patchIndex, patchMinMaxIndex, selection, items, last, chain, run>>
    /\ UNCHANGED uiVars

\* liveQuery(() => db.files.get(id)) of the observer of id
NotifyFile ==
    \E id \in fileObservers :
        /\ id \in DOMAIN dbFiles
        /\ IF id \in DOMAIN fileState THEN fileState[id] # dbFiles[id] ELSE TRUE
        /\ fileState' = MapSet(fileState, id, dbFiles[id])
        /\ UNCHANGED <<dbFileIds, dbFiles, dbPatches, dbPatchIndex, patchQ, fileQ,
                       fileObservers, patchIndex, patchMinMaxIndex, selection, items,
                       last, chain, run>>
        /\ UNCHANGED uiVars

\* Every write has been executed and every live query has delivered its result.
Settled ==
    /\ patchQ = << >>
    /\ fileQ = << >>
    /\ patchIndex = (IF dbPatchIndex = Undefined THEN -1 ELSE dbPatchIndex[1])
    /\ patchMinMaxIndex = MinMax(DOMAIN dbPatches)
    /\ fileObservers = dbFileIds
    /\ fileState = dbFiles

----
\* Observers of the calls (they read the program's state and never change it)

NoCall == [op |-> "none", ok |-> TRUE, files |-> EmptyMap, next |-> EmptyMap,
           index |-> -1, low |-> {}, tail |-> FALSE]
NoChain == [phase |-> 0, pre |-> [files |-> EmptyMap, index |-> -1],
            post |-> [files |-> EmptyMap, index |-> -1]]
NoRun == [n |-> 0, m |-> 0, files |-> EmptyMap, index |-> -1, states |-> << >>]

\* The entries at or below the cursor: those a commit does not discard as redo tail.
Low == {k \in DOMAIN dbPatches : k <= patchIndex}

ObserveCommit(next) ==
    /\ last' = [op |-> "commit", ok |-> TRUE, files |-> fileState, next |-> next,
                index |-> patchIndex, low |-> Low, tail |-> canRedo]
    /\ chain' = [phase |-> 1, pre |-> [files |-> fileState, index |-> patchIndex],
                 post |-> [files |-> next, index |-> patchIndex + 1]]
    /\ run' = NoRun

ObserveUndo ==
    /\ last' = [op |-> "undo", ok |-> canUndo, files |-> fileState, next |-> fileState,
                index |-> patchIndex, low |-> Low, tail |-> canRedo]
    /\ chain' = IF chain.phase = 1 THEN [chain EXCEPT !.phase = 2] ELSE NoChain
    /\ run' = NoRun

ObserveRedo ==
    /\ last' = [op |-> "redo", ok |-> canRedo, files |-> fileState, next |-> fileState,
                index |-> patchIndex, low |-> Low, tail |-> canRedo]
    /\ chain' = IF chain.phase = 2 THEN [chain EXCEPT !.phase = 3] ELSE NoChain
    /\ run' = NoRun

----
\* The user: each call is made once the previous one has settled.

Select ==
    /\ Settled
    /\ \E S \in SUBSET fileObservers : S # selection /\ selection' = S
    /\ UNCHANGED <<dbFileIds, dbFiles, dbPatches, dbPatchIndex, patchQ, fileQ,
                   fileObservers, fileState, patchIndex, patchMinMaxIndex, items,
                   last, chain, run>>
    /\ UNCHANGED uiVars

Add ==
    /\ Settled
    /\ patchIndex + 1 <= MaxRichIndex
    /\ Cardinality(fileObservers) + 1 <= MaxFiles
    /\ \E file \in SampleFiles :
          /\ add(file)
          /\ ObserveCommit(MapSet(fileState, getFileIds(1)[1], file))
    /\ UNCHANGED uiVars

AddMultiple ==
    /\ Settled
    /\ patchIndex + 1 <= MaxRichIndex
    /\ Cardinality(fileObservers) + 2 <= MaxFiles
    /\ \E files \in {<<FileA, FileB>>, <<FileB, FileB>>} :
          /\ addMultiple(files)
          /\ ObserveCommit(SetAll(fileState, getFileIds(Len(files)), files))
    /\ UNCHANGED uiVars

DeleteSelectedFiles ==
    /\ Settled
    /\ patchIndex + 1 <= MaxRichIndex
    /\ deleteSelectedFiles
    /\ ObserveCommit([id \in DOMAIN fileState \ selection |-> fileState[id]])
    /\ UNCHANGED uiVars

DeleteAllFiles ==
    /\ Settled
    /\ patchIndex + 1 <= MaxRichIndex
    /\ deleteAllFiles
    /\ ObserveCommit(EmptyMap)
    /\ UNCHANGED uiVars

ReverseSelection ==
    /\ Settled
    /\ patchIndex + 1 <= MaxRichIndex
    /\ reverseSelection
    /\ ObserveCommit([id \in DOMAIN fileState |->
                        IF id \in selection THEN reverse(fileState[id]) ELSE fileState[id]])
    /\ UNCHANGED uiVars

Undo == Settled /\ undo /\ ObserveUndo /\ UNCHANGED uiVars

Redo == Settled /\ redo /\ ObserveRedo /\ UNCHANGED uiVars

\* The user of SpecLong: one file, added when there is none and deleted with
\* deleteAllFiles when it is there, undo and redo. Its observer follows the commits only.
ObserveLongCommit(next) ==
    /\ last' = [op |-> "commit", ok |-> TRUE, files |-> fileState, next |-> next,
                index |-> patchIndex, low |-> Low, tail |-> canRedo]
    /\ chain' = NoChain
    /\ run' = NoRun

LongAdd ==
    /\ Settled
    /\ patchIndex + 1 <= MaxIndex
    /\ fileObservers = {}
    /\ add(FileA)
    /\ ObserveLongCommit(MapSet(fileState, getFileIds(1)[1], FileA))
    /\ UNCHANGED uiVars

LongDeleteAllFiles ==
    /\ Settled
    /\ patchIndex + 1 <= MaxIndex
    /\ fileObservers # {}
    /\ deleteAllFiles
    /\ ObserveLongCommit(EmptyMap)
    /\ UNCHANGED uiVars

LongUndo ==
    /\ Settled
    /\ undo
    /\ last' = NoCall
    /\ chain' = NoChain
    /\ run' = NoRun
    /\ UNCHANGED uiVars

LongRedo ==
    /\ Settled
    /\ redo
    /\ last' = NoCall
    /\ chain' = NoChain
    /\ run' = NoRun
    /\ UNCHANGED uiVars

\* The user of SpecRun: commits in a row, then undos in a row. A run of commits starts
\* at a cursor below MaxBase, where the user also redoes; the observer counts the
\* commits and the undos of the run and keeps the state the run started in and the
\* state after each of its commits.
ObserveRunCommit(next) ==
    /\ last' = NoCall
    /\ chain' = NoChain
    /\ run' = IF run.n > 0 /\ run.m = 0
              THEN [run EXCEPT !.n = @ + 1, !.states = Append(@, next)]
              ELSE [n |-> 1, m |-> 0, files |-> fileState, index |-> patchIndex,
                    states |-> <<next>>]

RunAdd ==
    /\ Settled
    /\ patchIndex + 1 <= MaxIndex
    /\ (run.n > 0 /\ run.m = 0) \/ patchIndex < MaxBase
    /\ fileObservers = {}
    /\ add(FileA)
    /\ ObserveRunCommit(MapSet(fileState, getFileIds(1)[1], FileA))
    /\ UNCHANGED uiVars

RunDeleteAllFiles ==
    /\ Settled
    /\ patchIndex + 1 <= MaxIndex
    /\ (run.n > 0 /\ run.m = 0) \/ patchIndex < MaxBase
    /\ fileObservers # {}
    /\ deleteAllFiles
    /\ ObserveRunCommit(EmptyMap)
    /\ UNCHANGED uiVars

RunUndo ==
    /\ Settled
    /\ undo
    /\ last' = NoCall
    /\ chain' = NoChain
    /\ run' = IF run.n > 0 /\ run.m < run.n THEN [run EXCEPT !.m = @ + 1] ELSE NoRun
    /\ UNCHANGED uiVars

RunRedo ==
    /\ Settled
    /\ patchIndex < MaxBase
    /\ run.m = run.n
    /\ redo
    /\ last' = NoCall
    /\ chain' = NoChain
    /\ run' = NoRun
    /\ UNCHANGED uiVars

\* The user of SpecCrop: the files A and B are added together, files are selected and
\* cropped, undo and redo. The observer keeps the window and the selection of the last
\* cropSelection with the documents it was called on, and follows the undo and the redo
\* made after it (phase 11: cropSelection called, 12: undo called, 13: redo called).
CropAddMultiple ==
    /\ Settled
    /\ patchIndex + 1 <= MaxCropIndex
    /\ fileObservers = {}
    /\ addMultiple(<<FileA, FileB>>)
    /\ ObserveCommit(SetAll(fileState, getFileIds(2), <<FileA, FileB>>))
    /\ UNCHANGED uiVars

CropSelection ==
    /\ Settled
    /\ patchIndex + 1 <= MaxCropIndex
    /\ \E start, end \in -1 .. MaxWindow :
          /\ cropSelection(start, end)
          /\ chain' = [phase |-> 11, pre |-> [files |-> fileState, index |-> patchIndex],
                       post |-> [files |-> EmptyMap, index |-> patchIndex + 1],
                       start |-> start, end |-> end, selected |-> selection]
    /\ last' = NoCall
    /\ run' = NoRun
    /\ UNCHANGED uiVars

CropUndo ==
    /\ Settled
    /\ undo
    /\ last' = NoCall
    /\ chain' = IF chain.phase = 11 THEN [chain EXCEPT !.phase = 12] ELSE NoChain
    /\ run' = NoRun
    /\ UNCHANGED uiVars

CropRedo ==
    /\ Settled
    /\ redo
    /\ last' = NoCall
    /\ chain' = IF chain.phase = 12 THEN [chain EXCEPT !.phase = 13] ELSE NoChain
    /\ run' = NoRun
    /\ UNCHANGED uiVars

\* The user of Spec: calls are made at any moment, also while writes and notifications
\* of earlier calls are pending. The observer keeps the documents the calls made so far
\* produce when each edit starts from the result of the one before (last.next), and
\* counts the calls (run.n).
Intended == IF last.op = "commit" THEN last.next ELSE fileState

FirstFree(ids) == CHOOSE i \in Ids : i \notin ids /\ \A j \in Ids : j < i => j \in ids

ObserveRacyCommit(next) ==
    /\ last' = [op |-> "commit", ok |-> TRUE, files |-> Intended, next |-> next,
                index |-> patchIndex, low |-> Low, tail |-> canRedo]
    /\ chain' = NoChain
    /\ run' = [NoRun EXCEPT !.n = run.n + 1]

RacyAdd ==
    /\ run.n < MaxCalls
    /\ Cardinality(DOMAIN Intended) + 1 <= MaxFiles
    /\ \E file \in SampleFiles :
          /\ add(file)
          /\ ObserveRacyCommit(MapSet(Intended, FirstFree(DOMAIN Intended), file))
    /\ UNCHANGED uiVars

RacyDeleteAllFiles ==
    /\ run.n < MaxCalls
    /\ deleteAllFiles
    /\ ObserveRacyCommit(EmptyMap)
    /\ UNCHANGED uiVars

\* The users of SpecSplit and SpecEdit: the documents C and D are added together and
\* then split, undo and redo are called (SpecSplit); the documents C, D and A are added
\* together and then, with any selection of files, extractSelection, mergeSelection,
\* undo and redo are called (SpecEdit); each call is made when the call before has
\* settled. The observer keeps the arguments and
\* the state of the call (chain) and what the log held (last); of a call of split that
\* raises an error it keeps the state and the error only.
NoEdit == [phase |-> 20, pre |-> [files |-> EmptyMap, index |-> -1],
           post |-> [files |-> EmptyMap, index |-> -1], selected |-> {},
           fileId |-> -1, trackIndex |-> -1, segmentIndex |-> -1, coordinates |-> -1,
           splitType |-> "none", threw |-> FALSE, mergeTraces |-> FALSE]

ObserveEdit(phase) ==
    /\ last' = [op |-> "commit", ok |-> TRUE, files |-> fileState, next |-> EmptyMap,
                index |-> patchIndex, low |-> Low, tail |-> canRedo]
    /\ chain' = [NoEdit EXCEPT !.phase = phase,
                               !.pre = [files |-> fileState, index |-> patchIndex],
                               !.post = [files |-> EmptyMap, index |-> patchIndex + 1],
                               !.selected = selection]
    /\ run' = NoRun

SplitAddMultiple ==
    /\ Settled
    /\ patchIndex + 1 <= MaxEditIndex
    /\ fileObservers = {}
    /\ addMultiple(<<FileC, FileD>>)
    /\ ObserveEdit(20)
    /\ UNCHANGED uiVars

EditAddMultiple ==
    /\ Settled
    /\ patchIndex + 1 <= MaxEditIndex
    /\ fileObservers = {}
    /\ addMultiple(<<FileC, FileD, FileA>>)
    /\ ObserveEdit(20)
    /\ UNCHANGED uiVars

Split ==
    /\ Settled
    /\ patchIndex + 1 <= MaxEditIndex
    /\ \E fileId \in fileObservers, trackIndex \in 0 .. MaxTrackIndex,
          segmentIndex \in 0 .. MaxSegmentIndex, coordinates \in 0 .. MaxCoordinate,
          splitType \in SplitTypes :
          /\ split(fileId, trackIndex, segmentIndex, coordinates, splitType)
          /\ last' = [op |-> "commit", ok |-> TRUE, files |-> fileState, next |-> EmptyMap,
                      index |-> patchIndex, low |-> Low, tail |-> canRedo]
          /\ chain' = IF split_throws(fileId, trackIndex, segmentIndex)
                       THEN [NoEdit EXCEPT !.phase = 21,
                                !.pre = [files |-> fileState, index |-> patchIndex],
                                !.post = [files |-> EmptyMap, index |-> patchIndex + 1],
                                !.threw = TRUE]
                       ELSE [NoEdit EXCEPT !.phase = 21,
                                !.pre = [files |-> fileState, index |-> patchIndex],
                                !.post = [files |-> EmptyMap, index |-> patchIndex + 1],
                                !.selected = selection,
                                !.fileId = fileId, !.trackIndex = trackIndex,
                                !.segmentIndex = segmentIndex, !.coordinates = coordinates,
                                !.splitType = splitType]
    /\ run' = NoRun
    /\ UNCHANGED uiVars

ExtractSelection ==
    /\ Settled
    /\ patchIndex + 1 <= MaxEditIndex
    /\ extractSelection
    /\ ObserveEdit(22)
    /\ UNCHANGED uiVars

MergeSelection ==
    /\ Settled
    /\ patchIndex + 1 <= MaxEditIndex
    /\ \E mergeTraces \in BOOLEAN :
          /\ mergeSelection(mergeTraces)
          /\ last' = [op |-> "commit", ok |-> TRUE, files |-> fileState, next |-> EmptyMap,
                      index |-> patchIndex, low |-> Low, tail |-> canRedo]
          /\ chain' = [NoEdit EXCEPT !.phase = 23,
                           !.pre = [files |-> fileState, index |-> patchIndex],
                           !.post = [files |-> EmptyMap, index |-> patchIndex + 1],
                           !.selected = selection, !.mergeTraces = mergeTraces]
    /\ run' = NoRun
    /\ UNCHANGED uiVars

EditUndo ==
    /\ Settled
    /\ undo
    /\ last' = NoCall
    /\ chain' = NoChain
    /\ run' = NoRun
    /\ UNCHANGED uiVars

EditRedo ==
    /\ Settled
    /\ redo
    /\ last' = NoCall
    /\ chain' = NoChain
    /\ run' = NoRun
    /\ UNCHANGED uiVars

\* The user of SpecStale: one document is added, reversed and deleted, each edit when
\* the call before has settled; undo and redo are called at any moment, also while the
\* writes and notifications of the call before are pending. The observer keeps the last
\* call (last) and counts the calls of undo and redo (run.n).
ObserveStaleCommit ==
    /\ last' = [op |-> "commit", ok |-> TRUE, files |-> fileState, next |-> EmptyMap,
                index |-> patchIndex, low |-> Low, tail |-> canRedo]
    /\ chain' = NoChain
    /\ run' = run

StaleAdd ==
    /\ Settled
    /\ patchIndex + 1 <= MaxStaleIndex
    /\ fileObservers = {}
    /\ add(FileA)
    /\ ObserveStaleCommit
    /\ UNCHANGED uiVars

StaleReverseSelection ==
    /\ Settled
    /\ patchIndex + 1 <= MaxStaleIndex
    /\ reverseSelection
    /\ ObserveStaleCommit
    /\ UNCHANGED uiVars

StaleDeleteAllFiles ==
    /\ Settled
    /\ patchIndex + 1 <= MaxStaleIndex
    /\ fileObservers # {}
    /\ deleteAllFiles
    /\ ObserveStaleCommit
    /\ UNCHANGED uiVars

StaleUndo ==
    /\ run.n < MaxStaleCalls
    /\ undo
    /\ last' = [op |-> "undo", ok |-> canUndo, files |-> fileState, next |-> fileState,
                index |-> patchIndex, low |-> Low, tail |-> canRedo]
    /\ chain' = NoChain
    /\ run' = [run EXCEPT !.n = run.n + 1]
    /\ UNCHANGED uiVars

StaleRedo ==
    /\ run.n < MaxStaleCalls
    /\ redo
    /\ last' = [op |-> "redo", ok |-> canRedo, files |-> fileState, next |-> fileState,
                index |-> patchIndex, low |-> Low, tail |-> canRedo]
    /\ chain' = NoChain
    /\ run' = [run EXCEPT !.n = run.n + 1]
    /\ UNCHANGED uiVars

\* The user of SpecItems: the document A is added when there is none; the selection is
\* cleared, or files and up to MaxItems tracks, segments and waypoints that exist are
\* selected when nothing is; split,
\* deleteAllFiles, undo and redo are called, each when the call before has settled. The
\* observer keeps the state and the selection of the last call (chain).
AllItems(files) ==
    UNION {
        {Item(id, "waypoints", -1, -1, -1)}
        \cup {Item(id, "track", t - 1, -1, -1) : t \in DOMAIN files[id].trk}
        \cup UNION {{Item(id, "segment", t - 1, sg - 1, -1) : sg \in DOMAIN files[id].trk[t]} :
                       t \in DOMAIN files[id].trk}
        \cup {Item(id, "waypoint", -1, -1, w - 1) : w \in DOMAIN files[id].wpt}
        : id \in DOMAIN files}

\* The subsets of S of at most k elements
RECURSIVE SubsetsUpTo(_, _)
SubsetsUpTo(S, k) ==
    IF k = 0 THEN {{}}
    ELSE LET smaller == SubsetsUpTo(S, k - 1)
         IN smaller \cup {c \cup {x} : c \in smaller, x \in S}

ObserveItems(phase) ==
    /\ last' = NoCall
    /\ chain' = [phase |-> phase, pre |-> [files |-> fileState, index |-> patchIndex],
                 post |-> [files |-> EmptyMap, index |-> patchIndex],
                 selected |-> selection, items |-> items]
    /\ run' = NoRun

ItemsSelect ==
    /\ Settled
    /\ \E S \in SUBSET fileObservers, I \in SubsetsUpTo(AllItems(fileState), MaxItems) :
          /\ <<S, I>> # <<selection, items>>
          /\ (selection = {} /\ items = {}) \/ (S = {} /\ I = {})
          /\ selection' = S
          /\ items' = I
    /\ UNCHANGED <<dbFileIds, dbFiles, dbPatches, dbPatchIndex, patchQ, fileQ,
                   fileObservers, fileState, patchIndex, patchMinMaxIndex>>
    /\ last' = NoCall
    /\ chain' = NoChain
    /\ run' = NoRun
    /\ UNCHANGED uiVars

ItemsAdd ==
    /\ Settled
    /\ patchIndex + 1 <= MaxItemsIndex
    /\ fileObservers = {}
    /\ add(FileA)
    /\ ObserveItems(31)
    /\ UNCHANGED uiVars

ItemsSplit ==
    /\ Settled
    /\ patchIndex + 1 <= MaxItemsIndex
    /\ \E fileId \in fileObservers, trackIndex \in 0 .. MaxTrackIndex,
          segmentIndex \in 0 .. MaxSegmentIndex, coordinates \in 0 .. MaxCoordinate,
          splitType \in SplitTypes :
          /\ ~split_throws(fileId, trackIndex, segmentIndex)
          /\ split(fileId, trackIndex, segmentIndex, coordinates, splitType)
    /\ ObserveItems(31)
    /\ UNCHANGED uiVars

ItemsDeleteAllFiles ==
    /\ Settled
    /\ patchIndex + 1 <= MaxItemsIndex
    /\ fileObservers # {}
    /\ deleteAllFiles
    /\ ObserveItems(31)
    /\ UNCHANGED uiVars

ItemsUndo ==
    /\ Settled
    /\ canUndo
    /\ undo
    /\ ObserveItems(32)
    /\ UNCHANGED uiVars

ItemsRedo ==
    /\ Settled
    /\ canRedo
    /\ redo
    /\ ObserveItems(33)
    /\ UNCHANGED uiVars

\* The layers of the map (GPXLayer.ts): every layer takes a colour of the palette when
\* it is made, counts its use, adopts the colour of the style of its file when the file
\* has one, and gives its colour back when it is removed.
MaxLayers == 3    \* the most layers on the map at once
MaxDeficit == 2   \* the counters of the palette are followed down to -MaxDeficit

colors == <<"#ff0000", "#0000ff", "#46e646", "#00ccff", "#ff9900", "#ff00ff",
            "#ffff32", "#288228", "#9933ff", "#50f0be", "#8c645a">>

Palette == {colors[i] : i \in DOMAIN colors}

\* file._data.style.color: none, two colours of the palette, one colour outside of it
NoStyle == "none"
StyleColors == {NoStyle, "#ff0000", "#0000ff", "#123456"}

\* colors.reduce((a, b) => (colorCount[a] <= colorCount[b] ? a : b))
RECURSIVE getColor_reduce(_, _)
getColor_reduce(a, i) ==
    IF i > Len(colors) THEN a
    ELSE getColor_reduce(IF colorCount[a] <= colorCount[colors[i]] THEN a ELSE colors[i],
                         i + 1)

\* getColor: the colour it returns; the caller's step counts the use
getColor == getColor_reduce(colors[1], 2)

\* decrementColor
decrementColor(count, color) ==
    IF color \in DOMAIN count THEN [count EXCEPT ![color] = @ - 1] ELSE count

\* new GPXLayer(map, fileId, file)
NewGPXLayer ==
    /\ Cardinality(DOMAIN layers) < MaxLayers
    /\ \E fileId \in (0 .. MaxLayers - 1) \ DOMAIN layers, style \in StyleColors :
          layers' = [id \in DOMAIN layers \cup {fileId} |->
                        IF id = fileId THEN [layerColor |-> getColor, style |-> style]
                        ELSE layers[id]]
    /\ colorCount' = [colorCount EXCEPT ![getColor] = @ + 1]
    /\ UNCHANGED <<progVars, obsVars, key>>

\* The style of the file of a layer is changed (dbUtils.setStyleToSelection); the store
\* of the file then calls update.
LayerStyle ==
    /\ \E fileId \in DOMAIN layers, style \in StyleColors \ {NoStyle} :
          /\ layers[fileId].style # style
          /\ layers' = [layers EXCEPT ![fileId].style = style]
    /\ UNCHANGED <<progVars, obsVars, colorCount, key>>

\* GPXLayer.update, the colour
LayerUpdate ==
    /\ \E fileId \in DOMAIN layers :
          LET layer == layers[fileId]
          IN /\ layer.style # NoStyle
             /\ layer.layerColor # layer.style
             /\ colorCount' = decrementColor(colorCount, layer.layerColor)
             /\ \A color \in Palette : colorCount'[color] >= -MaxDeficit
             /\ layers' = [layers EXCEPT ![fileId].layerColor = layer.style]
    /\ UNCHANGED <<progVars, obsVars, key>>

\* GPXLayer.remove, the colour
LayerRemove ==
    /\ \E fileId \in DOMAIN layers :
          /\ colorCount' = decrementColor(colorCount, layers[fileId].layerColor)
          /\ \A color \in Palette : colorCount'[color] >= -MaxDeficit
          /\ layers' = [id \in DOMAIN layers \ {fileId} |-> layers[id]]
    /\ UNCHANGED <<progVars, obsVars, key>>

NextLayers == NewGPXLayer \/ LayerStyle \/ LayerUpdate \/ LayerRemove

\* updateSelectionFromKey (stores.ts) for a selection of files: the search of the next
\* file in the file order, one step for each turn of its loop.
MaxKeyFiles == 3   \* the number of file ids of SpecKey

KeyIds == 0 .. MaxKeyFiles - 1

\* The file orders: the sequences of distinct file ids
KeyOrders ==
    UNION {{o \in [1 .. n -> KeyIds] : \A i, j \in 1 .. n : i # j => o[i] # o[j]} :
              n \in 0 .. MaxKeyFiles}

NoNext == [defined |-> FALSE, fileId |-> -1]

NoKey == [pc |-> "idle", down |-> FALSE, order |-> << >>, selected |-> {},
          limitIndex |-> -1, nextIndex |-> -1, next |-> NoNext]

\* order.indexOf(fileId)
indexOf(order, fileId) ==
    IF \E i \in DOMAIN order : order[i] = fileId
    THEN (CHOOSE i \in DOMAIN order : order[i] = fileId) - 1
    ELSE -1

\* The forEach over the selected items: the highest index (down) or the lowest
limitIndexOf(order, selected, down) ==
    LET indices == {indexOf(order, fileId) : fileId \in selected}
    IN CHOOSE index \in indices :
           \A other \in indices : IF down THEN other <= index ELSE index <= other

\* updateSelectionFromKey(down, shift) up to the loop, for a selection of files
KeyCall ==
    /\ key.pc \in {"idle", "done"}
    /\ \E down \in BOOLEAN, order \in KeyOrders, selected \in (SUBSET KeyIds) \ {{}} :
          LET limitIndex == limitIndexOf(order, selected, down)
          IN key' = [pc |-> "loop", down |-> down, order |-> order, selected |-> selected,
                     limitIndex |-> limitIndex,
                     nextIndex |-> IF down THEN limitIndex + 1 ELSE limitIndex - 1,
                     next |-> NoNext]
    /\ UNCHANGED <<progVars, obsVars, colorCount, layers>>

\* if (nextIndex < 0) ... else if (nextIndex >= order.length) ...
KeyWrap(nextIndex, length, limitIndex) ==
    IF nextIndex < 0 THEN length - 1
    ELSE IF nextIndex >= length THEN 0
    ELSE nextIndex

\* One turn of while (true)
KeyLoop ==
    /\ key.pc = "loop"
    /\ LET nextIndex == KeyWrap(key.nextIndex, Len(key.order), key.limitIndex)
       IN IF nextIndex = key.limitIndex
          THEN key' = [key EXCEPT !.pc = "done", !.nextIndex = nextIndex]
          ELSE LET next == IF nextIndex + 1 \in DOMAIN key.order
                           THEN [defined |-> TRUE, fileId |-> key.order[nextIndex + 1]]
                           ELSE [defined |-> TRUE, fileId |-> -1]
               IN IF ~(next.fileId \in key.selected)
                  THEN key' = [key EXCEPT !.pc = "done", !.nextIndex = nextIndex,
                                          !.next = next]
                  ELSE key' = [key EXCEPT !.next = next,
                                          !.nextIndex = IF key.down THEN nextIndex + 1
                                                        ELSE nextIndex - 1]
    /\ UNCHANGED <<progVars, obsVars, colorCount, layers>>

NextKey == KeyCall \/ KeyLoop

Init ==
    /\ dbFileIds = {}
    /\ dbFiles = EmptyMap
    /\ dbPatches = << >>
    /\ dbPatchIndex = Undefined
    /\ patchQ = << >>
    /\ fileQ = << >>
    /\ fileObservers = {}
    /\ fileState = EmptyMap
    /\ patchIndex = -1
    /\ patchMinMaxIndex = [min |-> 0, max |-> 0]
    /\ selection = {}
    /\ items = {}
    /\ last = NoCall
    /\ chain = NoChain
    /\ run = NoRun
    /\ colorCount = [color \in Palette |-> 0]
    /\ layers = [id \in {} |-> [layerColor |-> NoStyle, style |-> NoStyle]]
    /\ key = NoKey

Next ==
    \/ RacyAdd \/ RacyDeleteAllFiles
    \/ DbPatches \/ DbFiles
    \/ NotifyPatchIndex \/ NotifyPatchMinMaxIndex \/ NotifyFileIds \/ NotifyFile

Spec == Init /\ [][Next]_vars

NextCrop ==
    \/ CropAddMultiple \/ Select \/ CropSelection \/ CropUndo \/ CropRedo
    \/ DbPatches \/ DbFiles
    \/ NotifyPatchIndex \/ NotifyPatchMinMaxIndex \/ NotifyFileIds \/ NotifyFile

SpecCrop == Init /\ [][NextCrop]_vars

NextSettled ==
    \/ Select \/ Add \/ AddMultiple \/ DeleteSelectedFiles \/ DeleteAllFiles
    \/ ReverseSelection \/ Undo \/ Redo
    \/ DbPatches \/ DbFiles
    \/ NotifyPatchIndex \/ NotifyPatchMinMaxIndex \/ NotifyFileIds \/ NotifyFile

SpecSettled == Init /\ [][NextSettled]_vars

NextLong ==
    \/ LongAdd \/ LongDeleteAllFiles \/ LongUndo \/ LongRedo
    \/ DbPatches \/ DbFiles
    \/ NotifyPatchIndex \/ NotifyPatchMinMaxIndex \/ NotifyFileIds \/ NotifyFile

SpecLong == Init /\ [][NextLong]_vars

NextRun ==
    \/ RunAdd \/ RunDeleteAllFiles \/ RunUndo \/ RunRedo
    \/ DbPatches \/ DbFiles
    \/ NotifyPatchIndex \/ NotifyPatchMinMaxIndex \/ NotifyFileIds \/ NotifyFile

SpecRun == Init /\ [][NextRun]_vars

NextSplit ==
    \/ SplitAddMultiple \/ Split \/ EditUndo \/ EditRedo
    \/ DbPatches \/ DbFiles
    \/ NotifyPatchIndex \/ NotifyPatchMinMaxIndex \/ NotifyFileIds \/ NotifyFile

SpecSplit == Init /\ [][NextSplit]_vars

NextEdit ==
    \/ EditAddMultiple \/ Select \/ ExtractSelection \/ MergeSelection
    \/ EditUndo \/ EditRedo
    \/ DbPatches \/ DbFiles
    \/ NotifyPatchIndex \/ NotifyPatchMinMaxIndex \/ NotifyFileIds \/ NotifyFile

SpecEdit == Init /\ [][NextEdit]_vars

NextStale ==
    \/ StaleAdd \/ Select \/ StaleReverseSelection \/ StaleDeleteAllFiles
    \/ StaleUndo \/ StaleRedo
    \/ DbPatches \/ DbFiles
    \/ NotifyPatchIndex \/ NotifyPatchMinMaxIndex \/ NotifyFileIds \/ NotifyFile

SpecStale == Init /\ [][NextStale]_vars

NextItems ==
    \/ ItemsAdd \/ ItemsSelect \/ ItemsSplit \/ ItemsDeleteAllFiles
    \/ ItemsUndo \/ ItemsRedo
    \/ DbPatches \/ DbFiles
    \/ NotifyPatchIndex \/ NotifyPatchMinMaxIndex \/ NotifyFileIds \/ NotifyFile

SpecItems == Init /\ [][NextItems]_vars

SpecLayers == Init /\ [][NextLayers]_vars

\* The loop of updateSelectionFromKey runs on once it has started.
SpecKey == Init /\ [][NextKey]_vars /\ WF_vars(KeyLoop)

----
\* The statistics of the documents (GPXStatisticsTree, built by the live query of a
\* document from the snapshot it sets in fileState). The statistics of a segment are its
\* number of points, its length and its bounds; new GPXStatistics() has no point, no
\* length and empty bounds.
MaxStatsIndex == 1   \* the highest cursor of SpecStats

FileE == [trk |-> << >>, wpt |-> <<5>>]
FileF == [trk |-> << << >> >>, wpt |-> <<5>>]
FileG == [trk |-> << << >>, << <<2, 6>>, <<3>> >> >>, wpt |-> << >>]
StatsFiles == {FileC, FileE, FileF, FileG}

GPXStatistics == [n |-> 0, dist |-> 0, lo |-> 90, hi |-> -90]

mergeWith(statistics, other) ==
    [n |-> statistics.n + other.n, dist |-> statistics.dist + other.dist,
     lo |-> Min(statistics.lo, other.lo), hi |-> Max(statistics.hi, other.hi)]

\* TrackSegment.getStatistics()
RECURSIVE getStatistics_from(_, _)
getStatistics_from(segment, i) ==
    IF i > Len(segment) THEN GPXStatistics
    ELSE mergeWith([n |-> 1,
                    dist |-> IF i = 1 THEN 0 ELSE distance(segment[i - 1], segment[i]),
                    lo |-> segment[i], hi |-> segment[i]],
                   getStatistics_from(segment, i + 1))

getStatistics(segment) == getStatistics_from(segment, 1)

\* new GPXStatisticsTree(element): one node for each child, under its index
GPXStatisticsTree_Track(track) == [s \in DOMAIN track |-> getStatistics(track[s])]

GPXStatisticsTree(file) == [t \in DOMAIN file.trk |-> GPXStatisticsTree_Track(file.trk[t])]

\* item.getIdAtLevel(level): what the item selects at the level below a node
NoId == [kind |-> "undefined", index |-> -1]

getIdAtLevel(item, level) ==
    IF level = "file"
    THEN IF item.level \in {"track", "segment"}
         THEN [kind |-> "index", index |-> item.trackIndex]
         ELSE IF item.level \in {"waypoints", "waypoint"}
              THEN [kind |-> "waypoints", index |-> -1]
              ELSE NoId
    ELSE IF level = "track" /\ item.level = "segment"
         THEN [kind |-> "index", index |-> item.segmentIndex]
         ELSE NoId

\* statistics.mergeWith(...) for every key of the node, in the order of the keys
RECURSIVE mergeAll(_, _)
mergeAll(children, k) ==
    IF k > Len(children) THEN GPXStatistics
    ELSE mergeWith(children[k], mergeAll(children, k + 1))

\* Variant of getStatisticsFor of a track node that merges all the segments whatever
\* the item selects.
getStatisticsFor_Track_AllChildren(statistics, item) == mergeAll(statistics, 1)

\* getStatisticsFor of a node of level TRACK: its children are statistics
getStatisticsFor_Track(statistics, item) ==
    LET id == getIdAtLevel(item, "track")
    IN IF id.kind \in {"undefined", "waypoints"}
       THEN mergeAll(statistics, 1)
       ELSE IF id.index + 1 \in DOMAIN statistics
            THEN mergeWith(GPXStatistics, statistics[id.index + 1])
            ELSE GPXStatistics

\* Variant of getStatisticsFor that gives the first track for an item that selects none.
getStatisticsFor_FirstTrack(statistics, item) ==
    LET id == getIdAtLevel(item, "file")
        index == IF id.kind = "index" THEN id.index ELSE 0
    IN IF index + 1 \in DOMAIN statistics
       THEN mergeWith(GPXStatistics, getStatisticsFor_Track(statistics[index + 1], item))
       ELSE GPXStatistics

\* getStatisticsFor of a node of level FILE: its children are nodes of level TRACK
getStatisticsFor(statistics, item) ==
    LET id == getIdAtLevel(item, "file")
    IN IF id.kind \in {"undefined", "waypoints"}
       THEN mergeAll([t \in DOMAIN statistics |->
                         getStatisticsFor_Track(statistics[t], item)], 1)
       ELSE IF id.index + 1 \in DOMAIN statistics
            THEN mergeWith(GPXStatistics,
                           getStatisticsFor_Track(statistics[id.index + 1], item))
            ELSE GPXStatistics

\* The items a caller may ask the statistics of: the document, its waypoints, and any
\* track, segment or waypoint index up to the bounds, present or not.
StatsItems(fileId) ==
    {Item(fileId, "file", -1, -1, -1), Item(fileId, "waypoints", -1, -1, -1)}
    \cup {Item(fileId, "track", t, -1, -1) : t \in 0 .. MaxTrackIndex}
    \cup {Item(fileId, "segment", t, sg, -1) :
             t \in 0 .. MaxTrackIndex, sg \in 0 .. MaxSegmentIndex}
    \cup {Item(fileId, "waypoint", -1, -1, w) : w \in 0 .. MaxTrackIndex}

NoStats == [phase |-> 40, item |-> Item(-1, "file", -1, -1, -1), file |-> NoFile,
            statistics |-> GPXStatistics]

StatsAdd ==
    /\ Settled
    /\ patchIndex + 1 <= MaxStatsIndex
    /\ \E file \in StatsFiles : add(file)
    /\ last' = NoCall
    /\ chain' = NoChain
    /\ run' = NoRun
    /\ UNCHANGED uiVars

\* A subscriber of the store of a document asks the statistics of an item.
GetStatisticsFor ==
    /\ Settled
    /\ \E fileId \in fileObservers \cap DOMAIN fileState :
          \E item \in StatsItems(fileId) :
             chain' = [NoStats EXCEPT
                          !.item = item,
                          !.file = fileState[fileId],
                          !.statistics =
                              getStatisticsFor(GPXStatisticsTree(fileState[fileId]), item)]
    /\ last' = NoCall
    /\ run' = NoRun
    /\ UNCHANGED progVars
    /\ UNCHANGED uiVars

NextStats ==
    \/ StatsAdd \/ GetStatisticsFor
    \/ DbPatches \/ DbFiles
    \/ NotifyPatchIndex \/ NotifyPatchMinMaxIndex \/ NotifyFileIds \/ NotifyFile

SpecStats == Init /\ [][NextStats]_vars

----

\* The claims

\* The stored cursor, the stored keys and their range [min, max)
Cursor == IF dbPatchIndex = Undefined THEN -1 ELSE dbPatchIndex[1]
Keys == DOMAIN dbPatches
Stored == MinMax(Keys)

\* C5: in every state the database can be in, min - 1 <= cursor <= max - 1 for the
\* range [min, max) of the stored log entries.
C5_CursorInRange == Stored.min - 1 <= Cursor /\ Cursor <= Stored.max - 1

\* C6: the patch log never holds more than MAX_PATCHES entries, and a step that
\* removes entries removes the redo tail (every entry above the cursor's request) or
\* entries from the low end (every removed key is below every key kept).
C6_Removed == Keys \ DOMAIN dbPatches'
C9_Excess == Cardinality(last.low) + 1 - MAX_PATCHES
C9_PrunesOnlyWhenNeeded ==
    (last.op = "commit" /\ Settled) =>
        Cardinality(last.low \ Keys) = (IF C9_Excess > 0 THEN C9_Excess ELSE 0)


C2_UndoRedo ==
    (Settled /\ chain.phase = 3) =>
        /\ fileState = chain.post.files /\ dbFiles = chain.post.files
        /\ dbFileIds = DOMAIN chain.post.files
        /\ patchIndex = chain.post.index /\ Cursor = chain.post.index

\* C2 witness: the commit deleted a document and left another.
C2_Witness ==
    /\ Settled /\ chain.phase = 3
    /\ DOMAIN chain.pre.files \ DOMAIN chain.post.files # {}
    /\ DOMAIN chain.post.files # {}

\* C3: the entry a commit stores leads from the state before it to the state after
\* it and back: its patch applied to `before` gives `after`, its inverse patch
\* applied to `after` gives `before`.
C3_PatchPair ==
    (Settled /\ last.op = "commit") =>
        /\ last.index + 1 \in Keys
        /\ applyPatches(last.files, dbPatches[last.index + 1].patch)
               = [ok |-> TRUE, state |-> last.next]
        /\ applyPatches(last.next, dbPatches[last.index + 1].inversePatch)
               = [ok |-> TRUE, state |-> last.files]

\* C3 witness: a transaction whose patch has several operations, on a state with documents.
C3_Witness ==
    /\ Settled /\ last.op = "commit" /\ last.index + 1 \in Keys
    /\ Len(dbPatches[last.index + 1].patch) >= 2
    /\ DOMAIN last.files # {}

\* The documents that differ between two states
Changed(a, b) ==
    {id \in DOMAIN a \cup DOMAIN b :
        IF id \in DOMAIN a /\ id \in DOMAIN b THEN a[id] # b[id] ELSE TRUE}

C8_TailDiscarded ==
    (Settled /\ last.op = "commit") =>
        /\ \A k \in Keys : k <= last.index + 1
        /\ last.index + 1 \in Keys
        /\ dbPatches[last.index + 1] =
              [patch |-> produceWithPatches(last.files, last.next).patch,
               inversePatch |-> produceWithPatches(last.files, last.next).inversePatch,
               index |-> last.index + 1]
        /\ Cursor = last.index + 1 /\ patchIndex = last.index + 1
        /\ ~canRedo

\* C8 witness: a commit made when there was something to redo.
C8_Witness == Settled /\ last.op = "commit" /\ last.tail

\* C10: a call of undo made when canUndo is false, or of redo when canRedo is false,
\* changes nothing: documents, stored snapshots, log, cursor and selection stay, and
\* no request is issued.
C10_DisabledNoOp ==
    [][(last' # last /\ last'.op \in {"undo", "redo"} /\ ~last'.ok)
          => UNCHANGED progVars]_vars

\* C10 witness: undo was called with entries stored and nothing left to undo.
C10_Witness == last.op = "undo" /\ ~last.ok /\ Keys # {}

\* C11: from the call of undo or redo until its writes are done, no step adds, removes
\* or rewrites a log entry; when the call was enabled the cursor ends one below (undo)
\* or one above (redo) its value at the call, and when it was not, where it was.
C11_LogUntouched ==
    /\ [][last'.op \in {"undo", "redo"} => dbPatches' = dbPatches]_vars
    /\ []((Settled /\ last.op = "undo") =>
             Cursor = (IF last.ok THEN last.index - 1 ELSE last.index))
    /\ []((Settled /\ last.op = "redo") =>
             Cursor = (IF last.ok THEN last.index + 1 ELSE last.index))

\* C11 witness: an enabled redo has completed (after an undo), with several entries stored.
C11_Witness == Settled /\ last.op = "redo" /\ last.ok /\ Cardinality(Keys) >= 2

C13_OnlyWhenEmpty == Cursor = -1 => Keys = {}

\* C13: the cursor is absent from the settings only while the log is empty; once no
\* write is pending, an empty log implies cursor = -1, and cursor = -1 with entries
\* stored is the state in which every edit has been undone: the lowest entry is 0,
\* there is nothing to undo and redo is enabled.
C13_NoHistory ==
    /\ dbPatchIndex = Undefined => Keys = {}
    /\ Settled =>
          /\ Keys = {} => Cursor = -1
          /\ (Cursor = -1 /\ Keys # {}) => (Stored.min = 0 /\ ~canUndo /\ canRedo)

\* C13 witness: every edit has been undone and the log holds several entries.
C13_Witness == Settled /\ Cursor = -1 /\ Cardinality(Keys) >= 2

\* The ids that the commit stored at index k gave to new documents
AddedIds(k) ==
    {dbPatches[k].patch[i].path[1] :
        i \in {j \in DOMAIN dbPatches[k].patch : dbPatches[k].patch[j].op = "add"}}

\* C14: no id is given twice: the ids that two commits of the history gave to new
\* documents are different, also when the first document has been deleted since.
C14_NoIdReuse ==
    \A i, j \in Keys : i < j => AddedIds(i) \cap AddedIds(j) = {}

\* C15: in every state of the store, the stored documents are those a commit
\* produced if and only if the entry and the cursor of that commit are stored.
C15_SnapshotsMatchLog ==
    (last.op = "commit" /\ last.next # last.files) =>
        (dbFiles = last.next <=> Cursor = last.index + 1)

\* C16: the writes of a commit to the log and the cursor take effect together: a step
\* that changes the table patches or the cursor after a commit was called leaves them
\* as the commit has them in the end (tail gone, new entry stored, cursor advanced).
C16_GroupedWrite ==
    [][(/\ last.op = "commit" /\ last' = last
        /\ (dbPatches' # dbPatches \/ dbPatchIndex' # dbPatchIndex))
       => /\ dbPatchIndex' = <<last.index + 1>>
          /\ \A k \in DOMAIN dbPatches' : k <= last.index + 1
          /\ last.index + 1 \in DOMAIN dbPatches'
          /\ dbPatches'[last.index + 1].patch
                = produceWithPatches(last.files, last.next).patch]_vars

\* C17: from the moment an edit returns, the in-memory documents (fileState) are the
\* result of the edit.
C17_MemoryUpdatedOnReturn ==
    last.op = "commit" => fileState = last.next

\* C18: when the user makes edits one after the other, at any moment, the documents
\* in memory and in the store are, once every write is done and notified, those
\* obtained by making each edit on the result of the one before.
C18_NoLostUpdate ==
    (Settled /\ last.op = "commit") => (dbFiles = last.next /\ fileState = last.next)

\* The scenario of C19: the files A and B are the documents, A alone is selected and
\* the window of cropSelection lies outside the points of A.
C19_Case ==
    /\ chain.phase \in {11, 12, 13}
    /\ chain.pre.files = (0 :> FileA @@ 1 :> FileB)
    /\ chain.selected = {0}
    /\ (chain.start >= 2 \/ chain.end < 0)

\* C19: from the empty state, after addMultiple([A, B]) the ids are those of A and B;
\* after cropSelection with A alone selected and a window outside its points the only
\* id is that of B; after undo the ids are those of A and B and A is as it was; after
\* redo the only id is that of B again.
C19_Scenario ==
    Settled =>
        /\ (last.op = "commit" /\ last.files = EmptyMap /\ patchIndex = 0) =>
              (dbFileIds = {0, 1} /\ fileState = (0 :> FileA @@ 1 :> FileB))
        /\ (C19_Case /\ chain.phase = 11) =>
              (dbFileIds = {1} /\ fileState = (1 :> FileB) /\ dbFiles = fileState)
        /\ (C19_Case /\ chain.phase = 12) =>
              (dbFileIds = {0, 1} /\ fileState = (0 :> FileA @@ 1 :> FileB)
               /\ dbFiles = fileState)
        /\ (C19_Case /\ chain.phase = 13) =>
              (dbFileIds = {1} /\ fileState = (1 :> FileB) /\ dbFiles = fileState)

\* C19 witness: the redo of the scenario is done, for a window that starts at the
\* number of points of A.
C19_Witness == Settled /\ C19_Case /\ chain.phase = 13 /\ chain.start = 2 /\ chain.end >= 2

\* The case of C20: one file is selected, it has N >= 1 track points and the window of
\* cropSelection is 0 .. N - 1.
C20_Case ==
    /\ chain.phase = 11
    /\ \E id \in DOMAIN chain.pre.files :
          /\ chain.selected = {id}
          /\ getNumberOfTrackPoints(chain.pre.files[id]) >= 1
          /\ chain.start = 0
          /\ chain.end = getNumberOfTrackPoints(chain.pre.files[id]) - 1

\* C20: cropSelection(0, N - 1) on one selected file with N >= 1 track points leaves
\* the documents, stored and in memory, as they were.
C20_Identity ==
    C20_Case => (dbFiles = chain.pre.files /\ fileState = chain.pre.files
                 /\ dbFileIds = DOMAIN chain.pre.files)

\* C20 witness: such a call has completed on a file of three points.
C20_Witness == Settled /\ C20_Case /\ chain.end = 2 /\ Cursor = chain.post.index

\* The case of C21: cropSelection(k, k - 1) has completed on one selected file.
C21_Case ==
    /\ Settled
    /\ chain.phase = 11
    /\ Cursor = chain.post.index
    /\ \E id \in DOMAIN chain.pre.files : chain.selected = {id}
    /\ chain.end = chain.start - 1

\* C21: cropSelection(k, k - 1) on one selected file removes that file, for every
\* integer k, 0 < k < N included.
C21_EmptyWindowDeletes ==
    C21_Case => (chain.selected \cap dbFileIds = {} /\ chain.selected \cap DOMAIN fileState = {})

\* The case of C22: a call of split on an existing segment has completed. The segment
\* is the one of the file as it was at the call.
C22_Case ==
    /\ Settled
    /\ chain.phase = 21
    /\ ~chain.threw
    /\ Cursor = chain.post.index

C22_Segment == chain.pre.files[chain.fileId].trk[chain.trackIndex + 1][chain.segmentIndex + 1]

\* The indices of the points of the segment at the least distance from the coordinates
C22_Closest ==
    {i \in 0 .. Len(C22_Segment) - 1 :
        \A j \in 0 .. Len(C22_Segment) - 1 :
            distance(C22_Segment[i + 1], chain.coordinates)
                <= distance(C22_Segment[j + 1], chain.coordinates)}

C22_Lowest == CHOOSE i \in C22_Closest : \A j \in C22_Closest : i <= j

\* C22: split cuts at the lowest index among the points of the segment at the least
\* distance from the coordinates: the first part (segment, track or file, by the split
\* mode) ends with the point of that index and the second part starts with it.
C22_LowestClosestIndex ==
    C22_Case =>
        LET was == chain.pre.files[chain.fileId]
            track == was.trk[chain.trackIndex + 1]
            now == fileState[chain.fileId]
            inTrack == SumLen(SubSeq(track, 1, chain.segmentIndex)) + C22_Lowest
            inFile == getNumberOfTrackPoints_trk(SubSeq(was.trk, 1, chain.trackIndex)) + inTrack
        IN CASE chain.splitType = "segments" ->
                  /\ now.trk[chain.trackIndex + 1][chain.segmentIndex + 1]
                        = SubSeq(C22_Segment, 1, C22_Lowest + 1)
                  /\ now.trk[chain.trackIndex + 1][chain.segmentIndex + 2]
                        = SubSeq(C22_Segment, C22_Lowest + 1, Len(C22_Segment))
             [] chain.splitType = "tracks" ->
                  /\ SumLen(now.trk[chain.trackIndex + 1]) = inTrack + 1
                  /\ SumLen(now.trk[chain.trackIndex + 2]) = SumLen(track) - inTrack
             [] chain.splitType = "files" ->
                  /\ getNumberOfTrackPoints(now) = inFile + 1
                  /\ \E id \in DOMAIN fileState \ DOMAIN chain.pre.files :
                        getNumberOfTrackPoints(fileState[id])
                            = getNumberOfTrackPoints(was) - inFile

\* C22 witness: a split has completed where two points after the first of the segment
\* are at the least distance.
C22_Witness ==
    /\ C22_Case
    /\ Cardinality(C22_Closest) >= 2
    /\ C22_Lowest > 0

\* The case of C23: extractSelection has completed with one file selected, a file of
\* several tracks. C23_File is that file as it was, C23_NewIds the ids of the
\* documents made, in ascending order.
C23_Case ==
    /\ Settled
    /\ chain.phase = 22
    /\ Cursor = chain.post.index
    /\ \E id \in DOMAIN chain.pre.files :
          chain.selected = {id} /\ Len(chain.pre.files[id].trk) >= 2

C23_File == chain.pre.files[CHOOSE id \in chain.selected : TRUE]

C23_NewIds == SortedSeq(DOMAIN fileState \ DOMAIN chain.pre.files)

\* The points of track t of the file, and the least distance from waypoint w to a point
\* of the file
C23_Points(t) ==
    UNION {{C23_File.trk[t][s][j] : j \in DOMAIN C23_File.trk[t][s]} :
              s \in DOMAIN C23_File.trk[t]}

C23_Nearest(w, t) ==
    \E p \in C23_Points(t) :
        \A u \in DOMAIN C23_File.trk : \A q \in C23_Points(u) :
            distance(p, C23_File.wpt[w]) <= distance(q, C23_File.wpt[w])

\* C23: extractSelection on a file of several tracks makes one document per track, and
\* the waypoints of the document of a track are exactly the waypoints of the file for
\* which that track has a point at the least distance from the waypoint to any point of
\* the file, in their order: a waypoint as near to two tracks is in both documents, a
\* waypoint nearest to one track is in that document only.
C23_WaypointsToNearestTracks ==
    C23_Case =>
        /\ Len(C23_NewIds) = Len(C23_File.trk)
        /\ \A t \in DOMAIN C23_File.trk :
              LET Near(w) == C23_Nearest(w, t)
                  kept == SelectSeq([w \in DOMAIN C23_File.wpt |-> w], Near)
              IN fileState[C23_NewIds[t]].wpt = [k \in DOMAIN kept |-> C23_File.wpt[kept[k]]]

\* C23 witness: such a call has completed for a file with a waypoint as near to two
\* tracks and a waypoint nearest to one track.
C23_Witness ==
    /\ C23_Case
    /\ \E w \in DOMAIN C23_File.wpt : \A t \in DOMAIN C23_File.trk : C23_Nearest(w, t)
    /\ \E w \in DOMAIN C23_File.wpt :
          Cardinality({t \in DOMAIN C23_File.trk : C23_Nearest(w, t)}) = 1

\* The case of C24: extractSelection has completed with files selected.
C24_Case ==
    /\ Settled
    /\ chain.phase = 22
    /\ Cursor = chain.post.index
    /\ chain.selected # {}
    /\ chain.selected \subseteq DOMAIN chain.pre.files

\* The number of documents extractSelection is to make of a file: one per track of a
\* file of two or more tracks, one per segment of a file of one track.
C24_Parts(file) ==
    IF Len(file.trk) >= 2 THEN Len(file.trk)
    ELSE IF Len(file.trk) = 1 THEN Len(file.trk[1]) ELSE 0

RECURSIVE C24_Sum(_)
C24_Sum(ids) ==
    IF ids = {} THEN 0
    ELSE LET id == CHOOSE i \in ids : TRUE
         IN C24_Parts(chain.pre.files[id]) + C24_Sum(ids \ {id})

\* C24: extractSelection with a file-level selection replaces every selected file of
\* t >= 2 tracks by t new documents and every selected file of one track of s segments
\* by s new documents; the new ids differ from the ids there were, and the number of
\* documents made is the sum of these numbers over the selected files.
C24_OneDocumentPerPart ==
    C24_Case =>
        LET made == DOMAIN fileState \ DOMAIN chain.pre.files
        IN /\ DOMAIN fileState \cap chain.selected = {}
           /\ Cardinality(made) = C24_Sum(chain.selected)
           /\ dbFileIds = DOMAIN fileState

\* The case of C25 and C26: mergeSelection has completed with two or more files
\* selected. C25_Visited is the order in which the traversal visited them.
C25_Case ==
    /\ Settled
    /\ chain.phase = 23
    /\ Cursor = chain.post.index
    /\ Cardinality(chain.selected) >= 2
    /\ chain.selected \subseteq DOMAIN chain.pre.files

C25_Visited == SortedSeq(chain.selected)

\* C25: in mergeSelection the selected item visited last by the traversal is the merge
\* target and every other selected item of its level is removed; for file items: of
\* the selected files the one visited last remains and the others are gone.
C25_LastVisitedIsTarget ==
    C25_Case =>
        DOMAIN fileState \cap chain.selected = {C25_Visited[Len(C25_Visited)]}

\* The case of C26: mergeSelection(false) has completed with the files F1 .. Fk, k >= 2,
\* selected; C26_Visited lists them in the order of the traversal.
C26_Case ==
    /\ Settled
    /\ chain.phase = 23
    /\ ~chain.mergeTraces
    /\ Cursor = chain.post.index
    /\ Cardinality(chain.selected) >= 2
    /\ chain.selected \subseteq DOMAIN chain.pre.files

C26_Visited == SortedSeq(chain.selected)

C26_Count(files) ==
    LET trk == Concat([i \in DOMAIN files |-> files[i].trk])
    IN [tracks |-> Len(trk), segments |-> Len(Concat(trk)),
        points |-> Len(Concat(Concat(trk))),
        waypoints |-> Len(Concat([i \in DOMAIN files |-> files[i].wpt]))]

\* C26: after mergeSelection(false) on the selected files F1 .. Fk, k >= 2, exactly one
\* of them remains; its tracks are the tracks of F1 .. Fk concatenated in the order of
\* the traversal and its waypoints their waypoints concatenated; the numbers of
\* tracks, segments, points and waypoints are those of F1 .. Fk together; the other
\* k - 1 files are deleted and the files not selected are as they were.
C26_MergedFile ==
    C26_Case =>
        LET was == [i \in DOMAIN C26_Visited |-> chain.pre.files[C26_Visited[i]]]
            left == DOMAIN fileState \cap chain.selected
        IN /\ Cardinality(left) = 1
           /\ \A id \in left :
                 /\ fileState[id].trk = Concat([i \in DOMAIN was |-> was[i].trk])
                 /\ fileState[id].wpt = Concat([i \in DOMAIN was |-> was[i].wpt])
                 /\ C26_Count(<<fileState[id]>>) = C26_Count(was)
           /\ DOMAIN fileState = (DOMAIN chain.pre.files \ chain.selected) \cup left
           /\ \A id \in DOMAIN chain.pre.files \ chain.selected :
                 fileState[id] = chain.pre.files[id]
           /\ dbFiles = fileState /\ dbFileIds = DOMAIN fileState

\* C26 witness: two of three files have been merged.
C26_Witness ==
    /\ C26_Case
    /\ Cardinality(chain.selected) = 2
    /\ Cardinality(DOMAIN chain.pre.files) = 3

\* The case of C27: an edit driven by the selection was called with nothing selected,
\* and its writes have been executed.
C27_Case ==
    /\ Settled
    /\ chain.phase \in {22, 23}
    /\ chain.selected = {}

\* C27: an edit driven by the selection that is called with an empty selection returns
\* at once: no log entry is appended, the cursor stays, the redo tail is kept and
\* nothing is written.
C27_EmptySelectionReturns ==
    C27_Case =>
        /\ Cursor = chain.pre.index
        /\ last.tail => chain.pre.index + 1 \in Keys
        /\ \A k \in Keys : k <= chain.pre.index \/ last.tail
        /\ dbFiles = chain.pre.files

\* C28: a call of split for a track or segment index that the file does not have
\* raises no error and commits as any edit does: whatever the indices of the call,
\* once its writes are executed no error was raised and the cursor is one above its
\* value at the call.
C28_MissingIndexSkipped ==
    (Settled /\ chain.phase = 21) => (~chain.threw /\ Cursor = chain.post.index)

\* The case of C29, as a step: the database hands undo or redo the entry asked for and
\* the patch of the entry cannot be applied to the documents in memory.
C29_Fails ==
    /\ patchQ # << >>
    /\ Head(patchQ).t \in {"undo", "redo"}
    /\ Head(patchQ).k \in Keys
    /\ ~applyPatches(fileState,
                     IF Head(patchQ).t = "undo"
                     THEN dbPatches[Head(patchQ).k].inversePatch
                     ELSE dbPatches[Head(patchQ).k].patch).ok

\* C29: when the patch of undo() or redo() cannot be applied, nothing is committed: the
\* step that takes the request leaves the stored documents, the documents in memory,
\* the log entries, the cursor and the selection as they are, and issues no write.
C29_FailedPatchCommitsNothing ==
    [][(C29_Fails /\ patchQ' # patchQ /\ Len(patchQ') <= Len(patchQ)) =>
          /\ patchQ' = Tail(patchQ)
          /\ UNCHANGED <<dbFileIds, dbFiles, fileObservers, fileState, dbPatches,
                         dbPatchIndex, patchIndex, selection, items, fileQ>>]_vars

\* C29 witness: the last call was an undo that found its entry, the entry is still
\* there, all requests are executed and the cursor is not one below the entry: the
\* patch of the entry could not be applied.
C29_Witness ==
    /\ Settled
    /\ last.op = "undo"
    /\ last.ok
    /\ last.index \in Keys
    /\ Cursor # last.index - 1

\* An item below the file level exists in the documents: its file is there and has
\* the track, the segment or the waypoint of its indices.
C30_Exists(item, files) ==
    /\ item.fileId \in DOMAIN files
    /\ LET file == files[item.fileId]
       IN CASE item.level = "track" -> item.trackIndex + 1 \in DOMAIN file.trk
            [] item.level = "segment" ->
                 /\ item.trackIndex + 1 \in DOMAIN file.trk
                 /\ item.segmentIndex + 1 \in DOMAIN file.trk[item.trackIndex + 1]
            [] item.level = "waypoint" -> item.waypointIndex + 1 \in DOMAIN file.wpt
            [] OTHER -> TRUE

MaxDeleteIndex == 1   \* the highest cursor of SpecDelete
MaxDeleteItems == 3   \* the most items below the file level selected at once

FileH == [trk |-> << << <<1>>, <<2>>, <<3>> >>, << <<4>> >>, << <<5>> >> >>, wpt |-> <<6, 7, 8>>]

DeleteAddMultiple ==
    /\ Settled
    /\ patchIndex + 1 <= MaxDeleteIndex
    /\ fileObservers = {}
    /\ addMultiple(<<FileH, FileA>>)
    /\ ObserveItems(31)
    /\ UNCHANGED uiVars

\* The selections of one file below the file level: the waypoints item, or up to
\* MaxDeleteItems tracks, segments or waypoints
LevelItems(fileId, level) ==
    {item \in AllItems(fileState) : item.fileId = fileId /\ item.level = level}

FileSelections(fileId) ==
    UNION {SubsetsUpTo(LevelItems(fileId, level), MaxDeleteItems) :
              level \in {"waypoints", "track", "segment", "waypoint"}}

DeleteSelect ==
    /\ Settled
    /\ \E S \in SUBSET fileObservers :
          \E I \in {{}} \cup UNION {FileSelections(id) : id \in fileObservers \ S} :
             /\ <<S, I>> # <<selection, items>>
             /\ (selection = {} /\ items = {}) \/ (S = {} /\ I = {})
             /\ selection' = S
             /\ items' = I
    /\ UNCHANGED <<dbFileIds, dbFiles, dbPatches, dbPatchIndex, patchQ, fileQ,
                   fileObservers, fileState, patchIndex, patchMinMaxIndex>>
    /\ last' = NoCall
    /\ chain' = NoChain
    /\ run' = NoRun
    /\ UNCHANGED uiVars

DeleteSelection ==
    /\ Settled
    /\ patchIndex + 1 <= MaxDeleteIndex
    /\ deleteSelection
    /\ ObserveItems(50)
    /\ UNCHANGED uiVars

NextDelete ==
    \/ DeleteAddMultiple \/ DeleteSelect \/ DeleteSelection
    \/ DbPatches \/ DbFiles
    \/ NotifyPatchIndex \/ NotifyPatchMinMaxIndex \/ NotifyFileIds \/ NotifyFile

SpecDelete == Init /\ [][NextDelete]_vars

----

\* The user of SpecExtract: one document of any shape is added when there is none, the
\* selection is changed, extractSelection is called, each call when the call before has
\* settled. The observer keeps the state and the selection of the call (chain).
ExtractAdd ==
    /\ Settled
    /\ patchIndex + 1 <= MaxEditIndex
    /\ fileObservers = {}
    /\ \E file \in StatsFiles \cup {FileA, FileD} : add(file)
    /\ ObserveEdit(20)
    /\ UNCHANGED uiVars

NextExtract ==
    \/ ExtractAdd \/ Select \/ ExtractSelection
    \/ DbPatches \/ DbFiles
    \/ NotifyPatchIndex \/ NotifyPatchMinMaxIndex \/ NotifyFileIds \/ NotifyFile

SpecExtract == Init /\ [][NextExtract]_vars

----

\* C31: getStatisticsFor aggregates hierarchically: for a file item the result is the
\* merge of the results for each of its track items, for a track item the merge of the
\* statistics of the segments of that track, for a segment item the statistics of that
\* segment, and an item whose track or segment index has no node gives empty
\* statistics.
C31_Case == chain.phase = 40

RECURSIVE C31_Merge(_, _)
C31_Merge(children, k) ==
    IF k = 0 THEN GPXStatistics
    ELSE mergeWith(C31_Merge(children, k - 1), children[k])

C31_Track(file, t) ==
    IF t + 1 \in DOMAIN file.trk
    THEN C31_Merge([s \in DOMAIN file.trk[t + 1] |-> getStatistics(file.trk[t + 1][s])],
                   Len(file.trk[t + 1]))
    ELSE GPXStatistics

C31_Segment(file, t, s) ==
    IF t + 1 \in DOMAIN file.trk /\ s + 1 \in DOMAIN file.trk[t + 1]
    THEN getStatistics(file.trk[t + 1][s + 1])
    ELSE GPXStatistics

C31_Hierarchical ==
    C31_Case =>
        LET file == chain.file
            item == chain.item
            tree == GPXStatisticsTree(file)
        IN /\ item.level = "file" =>
                  chain.statistics =
                      C31_Merge([t \in DOMAIN file.trk |->
                                    getStatisticsFor(tree, Item(item.fileId, "track",
                                                                t - 1, -1, -1))],
                                Len(file.trk))
           /\ item.level = "track" =>
                  chain.statistics = C31_Track(file, item.trackIndex)
           /\ item.level = "segment" =>
                  chain.statistics = C31_Segment(file, item.trackIndex, item.segmentIndex)
           /\ item.level \in {"file", "waypoints", "waypoint"} =>
                  chain.statistics.n = getNumberOfTrackPoints(file)

C31_Witness ==
    /\ C31_Case
    /\ chain.item.level = "file"
    /\ chain.file = FileG
    /\ chain.statistics = [n |-> 3, dist |-> 4, lo |-> 2, hi |-> 6]

\* C32: a commit, an undo or a redo writes to the tables of the documents only the
\* documents whose id is the first path component of an operation of the applied patch:
\* the ids of the patch that the new state holds are put with their new snapshot, the
\* ids of the patch that the new state does not hold are deleted, and the snapshot and
\* the id entry of every other document stay as they are.
C32_Commits ==
    /\ Len(patchQ') > Len(patchQ)
    /\ patchQ'[Len(patchQ')].t = "put"

C32_Applies(t) ==
    /\ patchQ # << >>
    /\ Head(patchQ).t = t
    /\ Head(patchQ).k \in DOMAIN dbPatches
    /\ patchQ' # patchQ

C32_Patch ==
    IF C32_Commits THEN <<patchQ'[Len(patchQ')].patch>>
    ELSE IF C32_Applies("undo") THEN <<dbPatches[Head(patchQ).k].inversePatch>>
    ELSE IF C32_Applies("redo") THEN <<dbPatches[Head(patchQ).k].patch>>
    ELSE << >>

C32_Requested ==
    fileQ' # fileQ /\ Len(fileQ') >= Len(fileQ) =>
        /\ C32_Patch # << >>
        /\ Len(fileQ') = Len(fileQ) + 1
        /\ LET patch == C32_Patch[1]
               new == applyPatches(fileState, patch).state
               changed == getChangedFileIds(patch)
               t == fileQ'[Len(fileQ')]
           IN /\ DOMAIN t.put = changed \cap DOMAIN new
              /\ t.delete = changed \ DOMAIN new
              /\ \A id \in DOMAIN t.put : t.put[id] = new[id]

C32_Written ==
    dbFiles' # dbFiles \/ dbFileIds' # dbFileIds =>
        /\ fileQ # << >>
        /\ LET t == Head(fileQ)
           IN \A id \in DOMAIN dbFiles \cup DOMAIN dbFiles' \cup dbFileIds \cup dbFileIds' :
                 /\ id \notin DOMAIN t.put \cup t.delete =>
                       /\ (id \in dbFileIds') = (id \in dbFileIds)
                       /\ (id \in DOMAIN dbFiles') = (id \in DOMAIN dbFiles)
                       /\ id \in DOMAIN dbFiles => dbFiles'[id] = dbFiles[id]
                 /\ id \in DOMAIN dbFiles /\ id \notin DOMAIN dbFiles' <=>
                       id \in DOMAIN dbFiles /\ id \in t.delete

C32_OnlyChangedWritten == [][C32_Requested /\ C32_Written]_vars

C32_Witness ==
    /\ chain.phase = 23
    /\ Settled
    /\ patchIndex = chain.post.index
    /\ \E a, b, c \in DOMAIN chain.pre.files :
          /\ a \notin DOMAIN dbFiles
          /\ b \in DOMAIN dbFiles /\ dbFiles[b] # chain.pre.files[b]
          /\ c \in DOMAIN dbFiles /\ dbFiles[c] = chain.pre.files[c]

\* C33: no entry of the log at or below the cursor is overwritten by a later commit:
\* commits made one after the other with no undo between them are stored under as many
\* distinct indices and advance the cursor by one each, also when a commit is issued
\* before the cursor write of the one before has been notified.
C33_NoEntryOverwritten ==
    (Settled /\ run.n > 0) =>
        /\ DOMAIN dbPatches = 0 .. run.n - 1
        /\ dbPatchIndex = <<run.n - 1>>

\* The step of C34: the database hands undo (redo) the entry asked for and its inverse
\* patch (patch) is applied and committed.
C34_Applied(t) ==
    /\ patchQ # << >>
    /\ Head(patchQ).t = t
    /\ Head(patchQ).k \in Keys
    /\ fileQ' # fileQ

\* C34: the inverse patch of an entry is applied at most once for each visit of the
\* cursor: when undo() applies the inverse patch of an entry, the cursor is on that
\* entry and no cursor write of an earlier undo() or redo() is still to be executed;
\* the same for redo() and the patch of the entry above the cursor.
C34_AppliedOncePerVisit ==
    [][/\ C34_Applied("undo") =>
              /\ dbPatchIndex = <<Head(patchQ).k>>
              /\ \A i \in DOMAIN patchQ : patchQ[i].t # "putIndex"
       /\ C34_Applied("redo") =>
              /\ Cursor = Head(patchQ).k - 1
              /\ \A i \in DOMAIN patchQ : patchQ[i].t # "putIndex"]_vars

\* C35: deleteSelection with the tracks of the indices K of a file selected removes
\* exactly the tracks that were at the indices of K and keeps the other tracks in their
\* order; the same for the selected segments of a track and the selected waypoints (all
\* the waypoints for the waypoints item); selected files are removed, and nothing else
\* changes.
C35_Case == chain.phase = 50 /\ Settled /\ patchIndex = chain.post.index + 1

\* The elements of list whose index (from 0) is not in K, in their order
RECURSIVE C35_Keep(_, _, _)
C35_Keep(list, K, i) ==
    IF i > Len(list) THEN << >>
    ELSE (IF i - 1 \in K THEN << >> ELSE <<list[i]>>) \o C35_Keep(list, K, i + 1)

C35_Of(id, level) == {item \in chain.items : item.fileId = id /\ item.level = level}

C35_Expected(id) ==
    LET file == chain.pre.files[id]
    IN [trk |-> [t \in DOMAIN C35_Keep(file.trk,
                                       {item.trackIndex : item \in C35_Of(id, "track")}, 1) |->
                    LET kept == C35_Keep([k \in DOMAIN file.trk |-> k],
                                         {item.trackIndex : item \in C35_Of(id, "track")}, 1)
                        orig == kept[t]
                    IN C35_Keep(file.trk[orig],
                                {item.segmentIndex : item \in
                                    {x \in C35_Of(id, "segment") : x.trackIndex = orig - 1}},
                                1)],
        wpt |-> IF C35_Of(id, "waypoints") # {} THEN << >>
                ELSE C35_Keep(file.wpt,
                              {item.waypointIndex : item \in C35_Of(id, "waypoint")}, 1)]

C35_RemovesExactlySelected ==
    C35_Case =>
        /\ DOMAIN dbFiles = DOMAIN chain.pre.files \ chain.selected
        /\ \A id \in DOMAIN dbFiles : dbFiles[id] = C35_Expected(id)

C35_Witness ==
    /\ C35_Case
    /\ {item.trackIndex : item \in C35_Of(0, "track")} = {0, 2}
    /\ dbFiles[0].trk = << << <<4>> >> >>

\* The case of C36: cropSelection(start, end) has completed on a selection of several
\* files.
C36_Case ==
    /\ Settled
    /\ chain.phase = 11
    /\ Cursor = chain.post.index
    /\ Cardinality(chain.selected) >= 2

C36_Points(file) == Concat(Concat(file.trk))

\* The number of points of the selected files that come before the file id
C36_Offset(id) ==
    LET ids == SortedSeq(chain.selected)
        before == {i \in DOMAIN ids : ids[i] < id}
    IN IF before = {} THEN 0
       ELSE Len(Concat([i \in 1 .. Cardinality(before) |->
                           C36_Points(chain.pre.files[ids[i]])]))

\* The points of the file id whose index in the whole sequence is in the window
C36_Kept(id) ==
    LET points == C36_Points(chain.pre.files[id])
        offset == C36_Offset(id)
    IN C35_Keep(points,
                {i \in 0 .. Len(points) - 1 :
                    ~(chain.start <= i + offset /\ i + offset <= chain.end)}, 1)

\* C36: cropSelection(start, end) on several selected files takes their track points
\* as one sequence in the order of the traversal: afterwards exactly the points whose
\* index in that sequence is in start .. end remain, a file with no point in the window
\* is deleted, a file wholly in the window is as it was, and so are the files that are
\* not selected.
C36_GlobalWindow ==
    C36_Case =>
        \A id \in DOMAIN chain.pre.files :
            IF id \notin chain.selected
            THEN id \in DOMAIN dbFiles /\ dbFiles[id] = chain.pre.files[id]
            ELSE /\ id \in DOMAIN dbFiles <=> C36_Kept(id) # << >>
                 /\ id \in DOMAIN dbFiles => C36_Points(dbFiles[id]) = C36_Kept(id)
                 /\ C36_Kept(id) = C36_Points(chain.pre.files[id]) /\ C36_Kept(id) # << >>
                       => id \in DOMAIN dbFiles /\ dbFiles[id] = chain.pre.files[id]

\* The case of C37: a call of split on an existing segment has completed.
C37_Case ==
    /\ Settled
    /\ chain.phase = 21
    /\ ~chain.threw
    /\ Cursor = chain.post.index

\* The list without the element of index i (from 0), and with two elements in its place
C37_Replaced(list, i, a, b) == SubSeq(list, 1, i) \o <<a, b>> \o SubSeq(list, i + 2, Len(list))

\* C37: split at the nearest index m of a segment of n points puts the point of the
\* split in both halves and adds exactly one container: by segments, the segment is
\* replaced by two consecutive segments of m + 1 and n - m points; by tracks, the track
\* is replaced by two consecutive tracks that hold its points up to the split point and
\* from it; by files, the document keeps the points 0 .. a of the file and exactly one
\* new document holds the points a .. N - 1, a being the index of the split point in
\* the file; every other document is as it was.
C37_OneMoreContainer ==
    C37_Case =>
        LET was == chain.pre.files[chain.fileId]
            track == was.trk[chain.trackIndex + 1]
            segment == track[chain.segmentIndex + 1]
            now == fileState[chain.fileId]
            m == C22_Lowest
            n == Len(segment)
            inTrack == SumLen(SubSeq(track, 1, chain.segmentIndex)) + m
            a == getNumberOfTrackPoints_trk(SubSeq(was.trk, 1, chain.trackIndex)) + inTrack
            points == Concat(Concat(was.trk))
        IN /\ \A id \in DOMAIN chain.pre.files \ {chain.fileId} :
                 id \in DOMAIN fileState /\ fileState[id] = chain.pre.files[id]
           /\ dbFiles = fileState
           /\ chain.fileId \in DOMAIN fileState
           /\ CASE chain.splitType = "segments" ->
                     /\ DOMAIN fileState = DOMAIN chain.pre.files
                     /\ now = [was EXCEPT !.trk[chain.trackIndex + 1] =
                                  C37_Replaced(track, chain.segmentIndex,
                                               SubSeq(segment, 1, m + 1),
                                               SubSeq(segment, m + 1, n))]
                [] chain.splitType = "tracks" ->
                     /\ DOMAIN fileState = DOMAIN chain.pre.files
                     /\ Len(now.trk) = Len(was.trk) + 1
                     /\ \A t \in DOMAIN was.trk :
                           /\ t < chain.trackIndex + 1 => now.trk[t] = was.trk[t]
                           /\ t > chain.trackIndex + 1 => now.trk[t + 1] = was.trk[t]
                     /\ Concat(now.trk[chain.trackIndex + 1])
                           = SubSeq(Concat(track), 1, inTrack + 1)
                     /\ Concat(now.trk[chain.trackIndex + 2])
                           = SubSeq(Concat(track), inTrack + 1, SumLen(track))
                [] chain.splitType = "files" ->
                     /\ Cardinality(DOMAIN fileState \ DOMAIN chain.pre.files) = 1
                     /\ Concat(Concat(now.trk)) = SubSeq(points, 1, a + 1)
                     /\ \A id \in DOMAIN fileState \ DOMAIN chain.pre.files :
                           Concat(Concat(fileState[id].trk))
                               = SubSeq(points, a + 1, Len(points))

C37_Witness ==
    /\ C37_Case
    /\ chain.splitType = "files"
    /\ chain.fileId = 0
    /\ chain.trackIndex = 1
    /\ Concat(Concat(fileState[0].trk)) = <<0, 2, 4, 2, 6, 4>>

\* The case of C38: extractSelection has completed with one file selected.
C38_Case ==
    /\ Settled
    /\ chain.phase = 22
    /\ Cursor = chain.post.index
    /\ Cardinality(chain.selected) = 1
    /\ chain.selected \subseteq DOMAIN chain.pre.files

C38_TrackPoints(file) == {Concat(Concat(file.trk))[i] : i \in 1 .. getNumberOfTrackPoints(file)}

C38_Waypoints(file) == {file.wpt[i] : i \in DOMAIN file.wpt}

\* C38: extractSelection on one selected file loses no data: every track point and
\* every waypoint of the file is in a document of the resulting state, whatever the
\* shape of the file, without track or with one track without segment included.
C38_NoDataLost ==
    C38_Case =>
        \A id \in chain.selected :
            /\ C38_TrackPoints(chain.pre.files[id])
                  \subseteq UNION {C38_TrackPoints(dbFiles[d]) : d \in DOMAIN dbFiles}
            /\ C38_Waypoints(chain.pre.files[id])
                  \subseteq UNION {C38_Waypoints(dbFiles[d]) : d \in DOMAIN dbFiles}

\* The live layers of a colour
C39_Uses(color) == Cardinality({id \in DOMAIN layers : layers[id].layerColor = color})

\* C39: after any creations, updates and removals of layers, for every colour of the
\* palette the counter colorCount is the number of live layers of that colour, so never
\* negative, and getColor gives a colour of the palette with the fewest live uses.
C39_CountsLiveLayers ==
    /\ \A color \in Palette : colorCount[color] = C39_Uses(color)
    /\ getColor \in Palette
    /\ \A color \in Palette : C39_Uses(getColor) <= C39_Uses(color)

\* C40: the search loop of updateSelectionFromKey for a selection of files ends, for
\* every selection that is not empty, every file order and both directions, a selection
\* of all the files of the order and a selected file that is not in the order included;
\* when it has ended the next item is undefined or a file of the order.
C40_Terminates ==
    /\ (key.pc = "loop") ~> (key.pc = "done")
    /\ [](key.pc = "done" /\ key.next.defined =>
             \E i \in DOMAIN key.order : key.order[i] = key.next.fileId)

====
